---------------------------- MODULE Spec2Model ----------------------------
(***************************************************************************)
(* Model of the Copilot ACP adapter (web/server/copilot-adapter.ts):       *)
(* the JSON-RPC transport over the backend's stdio (AcpTransport) and the  *)
(* adapter built on it (CopilotAdapter).                                   *)
(*                                                                         *)
(* Asynchrony.  A transport call() returns a promise.  dispatch() settles  *)
(* the promise synchronously while the read loop handles a frame; the code *)
(* after the caller's `await` runs later, as a microtask.  The model keeps *)
(* the settled-but-not-yet-continued calls in the queue `settled`; the     *)
(* Continue actions run the code after the await.  Frames that are already *)
(* buffered on stdout (the rest of the same read chunk, or a chunk that is *)
(* already queued) may be dispatched before the continuation runs; calls   *)
(* from outside (sendBrowserMessage, disconnect, the exited promise) are   *)
(* separate tasks and run only when no continuation is waiting.            *)
(*                                                                         *)
(* History.  `out` is the sequence of the adapter's outputs in program     *)
(* order: canonical events emitted to the browser and the handshake's      *)
(* callbacks.  `wire` is the sequence of requests written to the backend   *)
(* and `sendLog` the sequence of user_message sends; each entry of these   *)
(* two records how many outputs preceded it (`at`), which places it in the *)
(* program order of `out`.  `settleLog` is the sequence of settlements of  *)
(* calls: responses, rejections at end-of-input and failed writes.         *)
(***************************************************************************)
EXTENDS Integers, Sequences, FiniteSets, TLC

\* ---- bounds of the model ------------------------------------------------
MaxSends == 2      \* user_message sends by the browser
MaxOther == 1      \* interrupt / set_model sends by the browser
MaxNotifs == 2     \* notifications sent by the backend
MaxWrites == 2     \* raw writes to the backend in the recording model
MaxFrames == 2     \* inbound frames of any shape in the dispatch model
MaxRequests == 3   \* swarm bridge: requests that need a controller
MaxPushes == 5     \* swarm bridge: events pushed
MaxLists == 1      \* swarm bridge: list() calls
MaxStray == 1      \* responses that match no pending call
MaxBytes == 4      \* characters the backend writes to stdout

\* ---- values -------------------------------------------------------------
NoId == "none"                 \* null / undefined session id
StaleSid == "sid-prior"        \* options.acpSessionId of a resumed adapter
NewSid == "sid-new"            \* id assigned by session/new
NullResult == "null-result"    \* a response whose result is null / absent
TransportClosed == "ACP transport closed"

VARIABLES
    optSessionId,        \* options.acpSessionId
    nextId,              \* AcpTransport.nextId
    pending,             \* AcpTransport.pending: the calls awaiting a response
    tConnected,          \* AcpTransport.connected
    buffer,              \* AcpTransport.buffer: the unterminated rest of stdout
    settled,             \* settled calls whose continuation has not run yet
    settleLog,           \* history: every settlement of a call
    acpSessionId,        \* CopilotAdapter.acpSessionId
    connected,           \* CopilotAdapter.connected
    initialized,         \* CopilotAdapter.initialized
    initFailed,          \* CopilotAdapter.initFailed
    turnTextChunks,      \* CopilotAdapter.turnTextChunks
    turnThinkingChunks,  \* CopilotAdapter.turnThinkingChunks
    turnToolCalls,       \* CopilotAdapter.turnToolCalls
    pendingOutgoing,     \* CopilotAdapter.pendingOutgoing
    msgCounter,          \* CopilotAdapter.msgCounter
    procExited,          \* proc.exited has resolved
    kills,               \* SIGTERM signals sent to the process (proc.kill)
    disconnects,         \* times the onDisconnect callback has fired
    disconnectCalled,    \* disconnect() has been called
    sends,               \* number of user_message sends so far
    others,              \* number of interrupt / set_model sends so far
    frames,              \* number of inbound frames dispatched so far
    notifs,              \* number of notifications received so far
    strayIds,            \* ids of the responses that matched no pending call
    stdoutBytes,         \* the characters the backend writes to stdout
    readPos,             \* how many of them the read loop has received
    reads,               \* number of chunks read so far
    dispatched,          \* history: the lines handed to dispatch
    recorder,            \* options.recorder is given: the raw hooks are set
    recorded,            \* history: what the recorder was given
    written,             \* history: the data written to the backend's stdin
    delivered,           \* history: what dispatch did with each inbound frame
    controller,          \* swarm bridge: state.controller (0: null)
    initLock,            \* swarm bridge: state.initLock
    constructed,         \* swarm bridge: controllers constructed so far
    attached,            \* swarm bridge: the controllers attached to the buffer
    pc,                  \* swarm bridge: where each request is in ensureController
    ctrlOf,              \* swarm bridge: the controller a request is initialising
    events,              \* swarm bridge: SwarmEventBuffer.events (event ids)
    pushed,              \* swarm bridge: number of events pushed so far
    lists,               \* swarm bridge: number of list() calls so far
    lastList,            \* swarm bridge: the latest list() call and its result
    lastSend,            \* the latest sendBrowserMessage call and its return
    sendLog,             \* history: the user_message sends
    wire,                \* history: the requests written to the backend
    out                  \* history: the adapter's outputs

transportVars == <<nextId, pending, tConnected>>
flagVars == <<acpSessionId, connected, initialized, initFailed>>
turnVars == <<turnTextChunks, turnThinkingChunks, turnToolCalls>>
procVars == <<procExited, kills, disconnects, disconnectCalled>>
browserVars == <<sends, others, lastSend, sendLog>>
backendVars == <<frames, notifs>>
framingVars == <<stdoutBytes, readPos, reads, buffer, dispatched, recorder,
                 recorded, written, delivered>>

bridgeVars == <<controller, initLock, constructed, attached, pc, ctrlOf, events,
                pushed, lists, lastList>>

vars == <<optSessionId, transportVars, settled, settleLog, flagVars, turnVars,
          pendingOutgoing, msgCounter, procVars, browserVars, backendVars,
          strayIds, framingVars, bridgeVars, wire, out>>

\* ---- history entries ----------------------------------------------------
\* k: "emit" (canonical event) | "cb" (callback) | "mark" (flag set)
\* a: event type / callback name / flag
\* turn: the user_message the entry belongs to (0: none)
\* frame: the inbound frame that caused it (0: none)
\* p: details, a tuple
Entry(k, a, turn, frame, p) ==
    [k |-> k, a |-> a, turn |-> turn, frame |-> frame, p |-> p]

Emit(a, turn, frame, p) == Entry("emit", a, turn, frame, p)

Max(S) == CHOOSE x \in S : \A y \in S : y <= x

\* the turn whose events a notification belongs to: the latest user_message
\* whose session/prompt call is still awaiting its response (0 if none)
CurTurn ==
    LET ts == {c.turn : c \in {q \in pending : q.method = "session/prompt"}}
    IN IF ts = {} THEN 0 ELSE Max(ts)

\* Array.prototype.join(""): the concatenation of the chunks
RECURSIVE Join(_)
Join(chunks) ==
    IF chunks = <<>> THEN <<>> ELSE Head(chunks) \o Join(Tail(chunks))

\* ---- AcpTransport.call / writeRaw --------------------------------------
\* The part of the state a call changes, as a record.
CallState == [nextId |-> nextId, pending |-> pending, settled |-> settled,
              settleLog |-> settleLog, wire |-> wire, out |-> out]

\* writeRaw throws when the transport is closed
WriteFails == ~tConnected

\* a call that takes a new id only when its request is written
Call_KeepsIdOnFailure(s, method, turn, sid) ==
    LET id == s.nextId
        rejected == [id |-> id, method |-> method, turn |-> turn, ok |-> FALSE,
                     val |-> TransportClosed, frame |-> frames]
    IN
    IF WriteFails
    THEN [s EXCEPT !.settled = Append(@, rejected),
                   !.settleLog = Append(@, rejected)]
    ELSE [s EXCEPT !.nextId = id + 1,
                   !.pending = @ \cup {[id |-> id, method |-> method,
                                        turn |-> turn]},
                   !.wire = Append(@, [method |-> method, id |-> id,
                                       turn |-> turn, sid |-> sid,
                                       at |-> Len(s.out)])]

\* call(method): take the next id, register the pending entry and write the
\* request; when the write throws, drop the entry and reject the promise.
Call(s, method, turn, sid) ==
    LET id == s.nextId
        rejected == [id |-> id, method |-> method, turn |-> turn, ok |-> FALSE,
                     val |-> TransportClosed, frame |-> frames]
    IN
    IF WriteFails
    THEN [s EXCEPT !.nextId = id + 1,
                   !.settled = Append(@, rejected),
                   !.settleLog = Append(@, rejected)]
    ELSE [s EXCEPT !.nextId = id + 1,
                   !.pending = @ \cup {[id |-> id, method |-> method,
                                        turn |-> turn]},
                   !.wire = Append(@, [method |-> method, id |-> id,
                                       turn |-> turn, sid |-> sid,
                                       at |-> Len(s.out)])]

\* ---- CopilotAdapter.handleOutgoingUserMessage, up to its await ----------
TurnStartEvents(turn, frame) ==
    << Emit("stream_event", turn, frame, <<"message_start">>),
       Emit("status_change", turn, frame, <<"running">>) >>

HandleOutgoingUserMessage(s, turn, sid, frame) ==
    IF sid = NoId
    THEN s
    ELSE Call([s EXCEPT !.out = @ \o TurnStartEvents(turn, frame)],
              "session/prompt", turn, sid)

\* the flush loop of initialize(): dispatchOutgoing for each queued message
RECURSIVE Flush(_, _, _, _)
Flush(s, queue, sid, frame) ==
    IF queue = <<>>
    THEN s
    ELSE Flush(HandleOutgoingUserMessage(s, Head(queue), sid, frame),
               Tail(queue), sid, frame)

\* ---- construction -------------------------------------------------------
\* The constructor creates the transport, subscribes to proc.exited and
\* starts initialize(), which runs up to its first await: the initialize
\* request (id 1) is on the wire.
InitAdapter ==
    /\ optSessionId \in {NoId, StaleSid}
    /\ nextId = 2
    /\ pending = {[id |-> 1, method |-> "initialize", turn |-> 0]}
    /\ tConnected = TRUE
    /\ settled = <<>>
    /\ settleLog = <<>>
    /\ acpSessionId = NoId
    /\ connected = FALSE
    /\ initialized = FALSE
    /\ initFailed = FALSE
    /\ turnTextChunks = <<>>
    /\ turnThinkingChunks = <<>>
    /\ turnToolCalls = <<>>
    /\ pendingOutgoing = <<>>
    /\ msgCounter = 0
    /\ procExited = FALSE
    /\ kills = 0
    /\ disconnects = 0
    /\ disconnectCalled = FALSE
    /\ sends = 0
    /\ others = 0
    /\ frames = 0
    /\ notifs = 0
    /\ lastSend = [type |-> "none", ret |-> FALSE, branch |-> "none"]
    /\ sendLog = <<>>
    /\ wire = << [method |-> "initialize", id |-> 1, turn |-> 0,
                  sid |-> NoId, at |-> 0] >>
    /\ out = <<>>
    /\ strayIds = <<>>

\* nothing has been read from stdout yet
InitTransportInput(bytes) ==
    /\ stdoutBytes = bytes
    /\ readPos = 0
    /\ reads = 0
    /\ buffer = <<>>
    /\ dispatched = <<>>

\* the constructor's `if (options.recorder)`
InitRecorder(given) ==
    /\ recorder = given
    /\ recorded = <<>>
    /\ written = <<>>
    /\ delivered = <<>>

\* createSwarmBridgeApi: the state of a new bridge, with or without a
\* controller given in the options (its id is MaxRequests + 1)
InitBridge(given) ==
    /\ controller = IF given THEN MaxRequests + 1 ELSE 0
    /\ attached = IF given THEN <<MaxRequests + 1>> ELSE <<>>
    /\ initLock = FALSE
    /\ constructed = 0
    /\ pc = [r \in 1..MaxRequests |-> "idle"]
    /\ ctrlOf = [r \in 1..MaxRequests |-> 0]
    /\ events = <<>>
    /\ pushed = 0
    /\ lists = 0
    /\ lastList = [since |-> 0, given |-> FALSE, limit |-> 0, result |-> <<>>]

Init ==
    /\ InitAdapter
    /\ InitTransportInput(<<>>)
    /\ InitRecorder(FALSE)
    /\ InitBridge(FALSE)

\* ---- CopilotAdapter.sendBrowserMessage / dispatchOutgoing --------------
\* sendBrowserMessage without its initFailed check
SendBranch_IgnoresInitFailed ==
    IF ~initialized \/ acpSessionId = NoId THEN "queue" ELSE "dispatch"

\* which way sendBrowserMessage goes
SendBranch ==
    IF initFailed THEN "rejected"
    ELSE IF ~initialized \/ acpSessionId = NoId THEN "queue"
    ELSE "dispatch"

\* a queue that takes every message
Queued_Any(type) == TRUE

\* what is queued before the handshake has completed
Queued(type) == type = "user_message"

\* a dispatchOutgoing that reports every message as accepted
DispatchReturn_AcceptsAll(type) == TRUE

\* the value dispatchOutgoing returns
DispatchReturn(type) == type \in {"user_message", "interrupt"}

SendReturn(type) ==
    CASE SendBranch = "rejected" -> FALSE
      [] SendBranch = "queue" -> Queued(type)
      [] OTHER -> DispatchReturn(type)

SendUserMessage ==
    /\ settled = <<>>
    /\ sends < MaxSends
    /\ sends' = sends + 1
    /\ lastSend' = [type |-> "user_message",
                    ret |-> SendReturn("user_message"), branch |-> SendBranch]
    /\ sendLog' = Append(sendLog, [turn |-> sends + 1,
                                   ret |-> SendReturn("user_message"),
                                   branch |-> SendBranch,
                                   at |-> Len(out)])
    /\ LET turn == sends + 1
           s == IF SendBranch = "dispatch"
                THEN HandleOutgoingUserMessage(CallState, turn, acpSessionId,
                                               frames)
                ELSE CallState
       IN /\ nextId' = s.nextId
          /\ pending' = s.pending
          /\ settled' = s.settled
          /\ settleLog' = s.settleLog
          /\ wire' = s.wire
          /\ out' = s.out
          /\ pendingOutgoing' =
                IF SendBranch = "queue" /\ Queued("user_message")
                THEN Append(pendingOutgoing, turn)
                ELSE pendingOutgoing
          /\ IF SendBranch = "dispatch"
             THEN /\ turnTextChunks' = <<>>
                  /\ turnThinkingChunks' = <<>>
                  /\ turnToolCalls' = <<>>
             ELSE UNCHANGED turnVars
    /\ UNCHANGED <<optSessionId, strayIds, framingVars, bridgeVars, tConnected, flagVars, msgCounter, procVars,
                   others, backendVars>>

\* an interrupt that is reported as accepted without a signal to the process
SendOther_NoSignal(type) ==
    /\ settled = <<>>
    /\ others < MaxOther
    /\ others' = others + 1
    /\ lastSend' = [type |-> type, ret |-> SendReturn(type),
                    branch |-> SendBranch]
    /\ UNCHANGED <<optSessionId, strayIds, framingVars, bridgeVars, transportVars, settled, settleLog, flagVars,
                   turnVars, pendingOutgoing, msgCounter, procVars,
                   sends, sendLog, backendVars, wire, out>>

\* interrupt kills the process when dispatched; set_model does nothing
SendOther(type) ==
    /\ settled = <<>>
    /\ others < MaxOther
    /\ others' = others + 1
    /\ lastSend' = [type |-> type, ret |-> SendReturn(type),
                    branch |-> SendBranch]
    /\ kills' = IF SendBranch = "dispatch" /\ type = "interrupt"
                THEN kills + 1 ELSE kills
    /\ pendingOutgoing' =
          IF SendBranch = "queue" /\ Queued(type)
          THEN Append(pendingOutgoing, 0)
          ELSE pendingOutgoing
    /\ UNCHANGED <<optSessionId, strayIds, framingVars, bridgeVars, transportVars, settled, settleLog, flagVars,
                   turnVars, msgCounter, procExited, disconnects, disconnectCalled,
                   sends, sendLog, backendVars, wire, out>>

\* ---- CopilotAdapter.initialize, after each await -----------------------
\* a catch block that dispatches the queue (with the prior id) instead of
\* discarding it
InitFails_FlushesQueue(c) ==
    LET s == Flush([CallState EXCEPT !.settled = Tail(settled)],
                   pendingOutgoing, optSessionId, c.frame)
    IN /\ initFailed' = TRUE
       /\ nextId' = s.nextId
       /\ pending' = s.pending
       /\ settled' = s.settled
       /\ settleLog' = s.settleLog
       /\ wire' = s.wire
       /\ out' = Append(s.out, Entry("cb", "onInitError", 0, c.frame, <<c.val>>))
       /\ pendingOutgoing' = <<>>
       /\ UNCHANGED <<acpSessionId, initialized, turnVars>>

\* a catch block that does not report the error
InitFails_Silent(c) ==
    /\ initFailed' = TRUE
    /\ settled' = Tail(settled)
    /\ UNCHANGED <<nextId, pending, settleLog, wire, out, acpSessionId,
                   initialized, pendingOutgoing, turnVars>>

\* the catch block: mark init-failed and report the error
InitFails(c) ==
    /\ initFailed' = TRUE
    /\ out' = Append(out, Entry("cb", "onInitError", 0, c.frame, <<c.val>>))
    /\ settled' = Tail(settled)
    /\ UNCHANGED <<nextId, pending, settleLog, wire, acpSessionId,
                   initialized, pendingOutgoing, turnVars>>

\* a handshake that creates a session whether or not an id was given
SessionMethod_AlwaysNew == "session/new"

\* step 2: session/load when a prior id was given, else session/new
SessionMethod == IF optSessionId # NoId THEN "session/load" ELSE "session/new"

\* initialize() issuing its next call
InitCalls(method) ==
    LET s == Call([CallState EXCEPT !.settled = Tail(settled)], method, 0,
                  IF method = "session/load" THEN optSessionId ELSE NoId)
    IN /\ nextId' = s.nextId
       /\ pending' = s.pending
       /\ settled' = s.settled
       /\ settleLog' = s.settleLog
       /\ wire' = s.wire
       /\ out' = s.out
       /\ UNCHANGED <<acpSessionId, initialized, initFailed, pendingOutgoing,
                      turnVars>>

\* a report that carries the session id of the options
ReadyEvents_OptionId(sid, frame) ==
    << Entry("mark", "initialized", 0, frame, <<sid>>),
       Entry("cb", "onSessionMeta", 0, frame, <<optSessionId>>),
       Emit("session_init", 0, frame, <<>>) >>

\* what happens, in order, once the session exists
ReadyEvents(sid, frame) ==
    << Entry("mark", "initialized", 0, frame, <<sid>>),
       Entry("cb", "onSessionMeta", 0, frame, <<sid>>),
       Emit("session_init", 0, frame, <<>>) >>

InitSuccessState(s, queue, sid, frame) ==
    Flush([s EXCEPT !.out = @ \o ReadyEvents(sid, frame)], queue, sid, frame)

\* the session exists: mark initialized, report, flush the queue
InitSucceeds(c, sid) ==
    LET s == InitSuccessState([CallState EXCEPT !.settled = Tail(settled)],
                              pendingOutgoing, sid, c.frame)
    IN /\ acpSessionId' = sid
       /\ initialized' = TRUE
       /\ nextId' = s.nextId
       /\ pending' = s.pending
       /\ settled' = s.settled
       /\ settleLog' = s.settleLog
       /\ wire' = s.wire
       /\ out' = s.out
       /\ pendingOutgoing' = <<>>
       /\ IF pendingOutgoing # <<>> /\ sid # NoId
          THEN /\ turnTextChunks' = <<>>
               /\ turnThinkingChunks' = <<>>
               /\ turnToolCalls' = <<>>
          ELSE UNCHANGED turnVars
       /\ UNCHANGED initFailed

\* no fallback: a failed session/load fails the handshake
LoadFallsBack_Never(msg) == FALSE

\* whether a failed session/load falls back to session/new
LoadFallsBack(msg) == TRUE

ContinueInitialize ==
    /\ settled # <<>>
    /\ Head(settled).method = "initialize"
    /\ LET c == Head(settled) IN
       IF c.ok
       THEN /\ connected' = TRUE
            /\ InitCalls(SessionMethod)
       ELSE /\ InitFails(c)
            /\ UNCHANGED connected
    /\ UNCHANGED <<optSessionId, strayIds, framingVars, bridgeVars, tConnected, msgCounter, procVars,
                   browserVars, backendVars>>

ContinueSessionLoad ==
    /\ settled # <<>>
    /\ Head(settled).method = "session/load"
    /\ LET c == Head(settled) IN
       IF c.ok
       THEN InitSucceeds(c, optSessionId)
       ELSE IF LoadFallsBack(c.val)
            THEN InitCalls("session/new")
            ELSE InitFails(c)
    /\ UNCHANGED <<optSessionId, strayIds, framingVars, bridgeVars, tConnected, connected, msgCounter, procVars,
                   browserVars, backendVars>>

ContinueSessionNew ==
    /\ settled # <<>>
    /\ Head(settled).method = "session/new"
    /\ LET c == Head(settled) IN
       IF c.ok /\ c.val # NullResult
       THEN InitSucceeds(c, c.val)
       ELSE InitFails(c)
    /\ UNCHANGED <<optSessionId, strayIds, framingVars, bridgeVars, tConnected, connected, msgCounter, procVars,
                   browserVars, backendVars>>

\* ---- CopilotAdapter.handleOutgoingUserMessage, after its await ----------
\* the content blocks of the assembled message
ContentBlocks(thinkingText, fullText) ==
    (IF thinkingText # <<>> THEN << <<"thinking", thinkingText>> >> ELSE <<>>)
    \o (IF fullText # <<>> THEN << <<"text", fullText>> >> ELSE <<>>)

\* a resolution that emits the result before the assembled message
PromptResolvedEvents_ResultFirst(turn, frame, blocks) ==
    << Emit("result", turn, frame, <<"success">>) >>
    \o (IF blocks # <<>>
        THEN << Emit("assistant", turn, frame, <<"end_turn", blocks>>) >>
        ELSE <<>>)
    \o << Emit("status_change", turn, frame, <<"idle">>) >>

\* session/prompt resolved
PromptResolvedEvents(turn, frame, blocks) ==
    (IF blocks # <<>>
     THEN << Emit("assistant", turn, frame, <<"end_turn", blocks>>) >>
     ELSE <<>>)
    \o << Emit("result", turn, frame, <<"success">>),
          Emit("status_change", turn, frame, <<"idle">>) >>

\* a catch block that falls through to the result
PromptRejectedEvents_FallsThrough(turn, frame, msg) ==
    << Emit("error", turn, frame, <<"Copilot error: ", msg>>),
       Emit("status_change", turn, frame, <<"null">>),
       Emit("result", turn, frame, <<"success">>),
       Emit("status_change", turn, frame, <<"idle">>) >>

\* a catch block that only resets the status
PromptRejectedEvents_Swallowed(turn, frame, msg) ==
    << Emit("status_change", turn, frame, <<"null">>) >>

\* a catch block that reports a fixed text and goes back to idle
PromptRejectedEvents_Generic(turn, frame, msg) ==
    << Emit("error", turn, frame, <<"Copilot error: ", "unknown">>),
       Emit("status_change", turn, frame, <<"idle">>) >>

\* session/prompt rejected
PromptRejectedEvents(turn, frame, msg) ==
    << Emit("error", turn, frame, <<"Copilot error: ", msg>>),
       Emit("status_change", turn, frame, <<"null">>) >>

ContinuePrompt ==
    /\ settled # <<>>
    /\ Head(settled).method = "session/prompt"
    /\ LET c == Head(settled)
           blocks == ContentBlocks(Join(turnThinkingChunks), Join(turnTextChunks))
       IN /\ out' = out \o
                (IF c.ok
                 THEN PromptResolvedEvents(c.turn, c.frame, blocks)
                 ELSE PromptRejectedEvents(c.turn, c.frame, c.val))
          /\ msgCounter' = IF c.ok /\ blocks # <<>>
                           THEN msgCounter + 1 ELSE msgCounter
    /\ settled' = Tail(settled)
    /\ UNCHANGED <<optSessionId, strayIds, framingVars, bridgeVars, transportVars, settleLog, flagVars, turnVars,
                   pendingOutgoing, procVars, browserVars, backendVars, wire>>

\* ---- the backend: frames on stdout --------------------------------------
\* the responses the backend can give to a request
ResponseVals(method, ok) ==
    CASE method = "initialize" -> IF ok THEN {"ok"} ELSE {"fail"}
      [] method = "session/load" ->
            IF ok THEN {"ok"} ELSE {"not found", "internal error"}
      [] method = "session/new" ->
            IF ok THEN {NewSid, NoId, NullResult} ELSE {"fail"}
      [] OTHER -> IF ok THEN {"end_turn"} ELSE {"boom"}

\* a dispatch that settles the promise and keeps the entry in the table
Respond_KeepsEntry(c, ok, val) ==
    /\ tConnected
    /\ c \in pending
    /\ frames' = frames + 1
    /\ LET r == [id |-> c.id, method |-> c.method, turn |-> c.turn,
                 ok |-> ok, val |-> val, frame |-> frames + 1]
       IN /\ settled' = Append(settled, r)
          /\ settleLog' = Append(settleLog, r)
    /\ UNCHANGED <<optSessionId, strayIds, framingVars, bridgeVars, transportVars, flagVars,
                   turnVars, pendingOutgoing, msgCounter, procVars, browserVars,
                   notifs, wire, out>>

\* AcpTransport.dispatch, a response to a pending call: the entry leaves the
\* table and the promise is settled
Respond(c, ok, val) ==
    /\ tConnected
    /\ c \in pending
    /\ frames' = frames + 1
    /\ pending' = pending \ {c}
    /\ LET r == [id |-> c.id, method |-> c.method, turn |-> c.turn,
                 ok |-> ok, val |-> val, frame |-> frames + 1]
       IN /\ settled' = Append(settled, r)
          /\ settleLog' = Append(settleLog, r)
    /\ UNCHANGED <<optSessionId, strayIds, framingVars, bridgeVars, nextId, tConnected, flagVars, turnVars,
                   pendingOutgoing, msgCounter, procVars, browserVars, notifs,
                   wire, out>>

\* AcpTransport.dispatch, a response whose id is not in the table (never
\* issued, or settled already): nothing happens
StrayResponse(id) ==
    /\ tConnected
    /\ Len(strayIds) < MaxStray
    /\ ~\E c \in pending : c.id = id
    /\ frames' = frames + 1
    /\ strayIds' = Append(strayIds, id)
    /\ UNCHANGED <<optSessionId, framingVars, bridgeVars, transportVars, settled, settleLog,
                   flagVars, turnVars, pendingOutgoing, msgCounter, procVars,
                   browserVars, notifs, wire, out>>

\* the session/update notifications of the model; the n-th notification
\* carries the text <<n>>, so that chunks are told apart
ToolIds == {"T1"}

Updates ==
    {[kind |-> k, text |-> t, id |-> ""] :
        k \in {"agent_message_chunk", "agent_thought_chunk"},
        t \in {<<>>, <<notifs + 1>>}}
    \cup {[kind |-> "tool_call", text |-> <<>>, id |-> i] : i \in ToolIds}

\* the tool notifications of the model.  status: the update's status
\* (NoStatus: absent).  content: the texts of toolResultContent's items
\* (<<>>: an item without text).  raw: <<>> when rawOutput is absent, else
\* << rawOutput.content >>.  Tool T1 is updated with every status and
\* payload, tool T2 with one.
NoStatus == "no-status"

ToolCallIds == {"T1", "T2"}

ToolUpdate(id, status, content, raw) ==
    [kind |-> "tool_call_update", id |-> id, status |-> status,
     content |-> content, raw |-> raw]

ToolUpdates ==
    {[kind |-> "tool_call", id |-> i] : i \in ToolCallIds}
    \cup {ToolUpdate("T1", st, p[1], p[2]) :
             st \in {NoStatus, "completed", "failed", "declined"},
             p \in { << << <<"a">>, <<"b">> >>, << <<"r">> >> >>,
                     << << <<>> >>, << <<"r">> >> >>,
                     << <<>>, <<>> >> }}
    \cup {ToolUpdate("T2", "completed", << <<"a">> >>, <<>>)}

\* turnToolCalls.find(t => t.toolCallId === toolCallId) finds an entry
KnownTool_Any(calls, id) == TRUE

KnownTool(calls, id) == \E k \in DOMAIN calls : calls[k].toolCallId = id

\* entry.status = update.status ?? "completed"
EntryStatus(u) == IF u.status = NoStatus THEN "completed" ELSE u.status

\* is_error of the tool_result
IsError_FailedOnly(status) == status = "failed"

IsError(status) == status = "failed" \/ status = "declined"

\* the result text: the joined texts of toolResultContent, or else
\* rawOutput.content, or else the empty string
ResultText(u) ==
    IF Join(u.content) # <<>>
    THEN Join(u.content)
    ELSE IF u.raw # <<>> /\ u.raw[1] # <<>> THEN u.raw[1] ELSE <<>>

\* tool_call: tool_progress, then an assistant message with a tool_use block
ToolCallEvents_ToolUseOnly(u, turn, frame) ==
    << Emit("assistant", turn, frame, <<"null", << <<"tool_use", u.id>> >> >>) >>

ToolCallEvents(u, turn, frame) ==
    << Emit("tool_progress", turn, frame, <<u.id>>),
       Emit("assistant", turn, frame, <<"null", << <<"tool_use", u.id>> >> >>) >>

\* tool_call_update: an assistant message with a tool_result block
ToolResultEvents(u, turn, frame) ==
    << Emit("assistant", turn, frame,
            <<"null", << <<"tool_result", u.id, IsError(EntryStatus(u)),
                           ResultText(u)>> >> >>) >>

\* the registry after a tool_call_update: the first entry with the id gets
\* the status and the result text
UpdateEntry(calls, u) ==
    [k \in DOMAIN calls |->
        IF /\ calls[k].toolCallId = u.id
           /\ \A j \in 1..(k - 1) : calls[j].toolCallId # u.id
        THEN [calls[k] EXCEPT !.status = EntryStatus(u),
                              !.rawOutput = <<ResultText(u)>>]
        ELSE calls[k]]

\* the events a notification emits
NotificationEvents(u, turn, frame) ==
    CASE u.kind = "agent_thought_chunk" /\ u.text # <<>> ->
            << Emit("stream_event", turn, frame, <<"thinking_delta", u.text>>) >>
      [] u.kind = "agent_message_chunk" /\ u.text # <<>> ->
            << Emit("stream_event", turn, frame, <<"text_delta", u.text>>) >>
      [] u.kind = "tool_call" -> ToolCallEvents(u, turn, frame)
      [] u.kind = "tool_call_update" /\ KnownTool(turnToolCalls, u.id) ->
            ToolResultEvents(u, turn, frame)
      [] OTHER -> <<>>

\* CopilotAdapter.handleNotification
HandleNotification(u, frame) ==
    /\ turnThinkingChunks' =
          IF u.kind = "agent_thought_chunk" /\ u.text # <<>>
          THEN Append(turnThinkingChunks, u.text) ELSE turnThinkingChunks
    /\ turnTextChunks' =
          IF u.kind = "agent_message_chunk" /\ u.text # <<>>
          THEN Append(turnTextChunks, u.text) ELSE turnTextChunks
    /\ turnToolCalls' =
          CASE u.kind = "tool_call" ->
                  Append(turnToolCalls, [toolCallId |-> u.id, status |-> "pending",
                                         rawOutput |-> <<>>])
            [] u.kind = "tool_call_update" /\ KnownTool(turnToolCalls, u.id) ->
                  UpdateEntry(turnToolCalls, u)
            [] OTHER -> turnToolCalls
    /\ msgCounter' =
          IF \/ u.kind = "tool_call"
             \/ u.kind = "tool_call_update" /\ KnownTool(turnToolCalls, u.id)
          THEN msgCounter + 1 ELSE msgCounter
    /\ out' = out \o NotificationEvents(u, CurTurn, frame)

Notify(u) ==
    /\ tConnected
    /\ notifs < MaxNotifs
    /\ notifs' = notifs + 1
    /\ frames' = frames + 1
    /\ HandleNotification(u, frames + 1)
    /\ UNCHANGED <<optSessionId, strayIds, framingVars, bridgeVars, transportVars, settled, settleLog, flagVars,
                   pendingOutgoing, procVars, browserVars, wire>>

\* ---- notifications that handleNotification does not handle -------------
\* params.update is absent
NoUpdate == [kind |-> "absent", text |-> <<>>, id |-> ""]

\* a notification of another method, a session/update without an update, a
\* session/update of a kind that the switch does not know, each with a
\* payload that would show if it were handled, and one agent_message_chunk
IgnoredNotifications ==
    {[method |-> "session/cancelled",
      update |-> [kind |-> "agent_message_chunk", text |-> <<notifs + 1>>,
                  id |-> ""]],
     [method |-> "session/update", update |-> NoUpdate],
     [method |-> "session/update",
      update |-> [kind |-> "plan", text |-> <<notifs + 1>>, id |-> "T1"]]}

Notifications ==
    IgnoredNotifications
    \cup {[method |-> "session/update",
           update |-> [kind |-> "agent_message_chunk",
                       text |-> <<notifs + 1>>, id |-> ""]]}

\* a handler that takes the update of any notification for a session/update
IsSessionUpdate_AnyMethod(n) == n.update # NoUpdate

\* the two early returns of handleNotification
IsSessionUpdate(n) == n.method = "session/update" /\ n.update # NoUpdate

\* AcpTransport.dispatch of a notification of any method: the adapter's
\* notification callback runs handleNotification
Notification(n) ==
    /\ tConnected
    /\ notifs < MaxNotifs
    /\ notifs' = notifs + 1
    /\ frames' = frames + 1
    /\ IF IsSessionUpdate(n)
       THEN HandleNotification(n.update, frames + 1)
       ELSE UNCHANGED <<turnVars, msgCounter, out>>
    /\ UNCHANGED <<optSessionId, strayIds, framingVars, bridgeVars, transportVars, settled, settleLog, flagVars,
                   pendingOutgoing, procVars, browserVars, wire>>

\* an end-of-input that rejects only the oldest pending call
RejectAll_OnlyFirst(calls, frame) ==
    IF calls = {}
    THEN <<>>
    ELSE LET c == CHOOSE x \in calls : \A y \in calls : x.id <= y.id
         IN << [id |-> c.id, method |-> c.method, turn |-> c.turn,
                ok |-> FALSE, val |-> TransportClosed, frame |-> frame] >>

\* the rejections of the calls pending at end-of-input, in the table's order
RECURSIVE RejectAll(_, _)
RejectAll(calls, frame) ==
    IF calls = {}
    THEN <<>>
    ELSE LET c == CHOOSE x \in calls : \A y \in calls : x.id <= y.id
         IN << [id |-> c.id, method |-> c.method, turn |-> c.turn,
                ok |-> FALSE, val |-> TransportClosed, frame |-> frame] >>
            \o RejectAll(calls \ {c}, frame)

\* an end of stdout that closes the transport and leaves the calls pending
StreamEOF_LeavesPending ==
    /\ tConnected
    /\ tConnected' = FALSE
    /\ UNCHANGED <<optSessionId, strayIds, framingVars, bridgeVars, nextId, pending, settled, settleLog,
                   flagVars, turnVars, pendingOutgoing, msgCounter, procVars,
                   browserVars, backendVars, wire, out>>

\* AcpTransport.readStdout: stdout ends (or the read fails)
StreamEOF ==
    /\ tConnected
    /\ tConnected' = FALSE
    /\ settled' = settled \o RejectAll(pending, frames)
    /\ settleLog' = settleLog \o RejectAll(pending, frames)
    /\ pending' = {}
    /\ UNCHANGED <<optSessionId, strayIds, framingVars, bridgeVars, nextId, flagVars, turnVars, pendingOutgoing,
                   msgCounter, procVars, browserVars, backendVars, wire, out>>

\* ---- the process --------------------------------------------------------
\* an exit callback that also marks the adapter init-failed
ProcExit_MarksInitFailed ==
    /\ settled = <<>>
    /\ ~procExited
    /\ procExited' = TRUE
    /\ connected' = FALSE
    /\ initFailed' = TRUE
    /\ disconnects' = disconnects + 1
    /\ UNCHANGED <<optSessionId, strayIds, framingVars, bridgeVars, transportVars, settled, settleLog, acpSessionId,
                   initialized, turnVars, pendingOutgoing,
                   msgCounter, kills, disconnectCalled, browserVars,
                   backendVars, wire, out>>

\* proc.exited resolves: the constructor's callback runs
ProcExit ==
    /\ settled = <<>>
    /\ ~procExited
    /\ procExited' = TRUE
    /\ connected' = FALSE
    /\ disconnects' = disconnects + 1
    /\ UNCHANGED <<optSessionId, strayIds, framingVars, bridgeVars, transportVars, settled, settleLog, acpSessionId,
                   initialized, initFailed, turnVars, pendingOutgoing,
                   msgCounter, kills, disconnectCalled, browserVars,
                   backendVars, wire, out>>

\* a disconnect() that reports the disconnection itself
Disconnect_FiresCallback ==
    /\ settled = <<>>
    /\ ~disconnectCalled
    /\ disconnectCalled' = TRUE
    /\ connected' = FALSE
    /\ kills' = kills + 1
    /\ disconnects' = disconnects + 1
    /\ UNCHANGED <<optSessionId, strayIds, framingVars, bridgeVars, transportVars, settled,
                   settleLog, acpSessionId, initialized, initFailed, turnVars,
                   pendingOutgoing, msgCounter, procExited, browserVars,
                   backendVars, wire, out>>

\* CopilotAdapter.disconnect
Disconnect ==
    /\ settled = <<>>
    /\ ~disconnectCalled
    /\ disconnectCalled' = TRUE
    /\ connected' = FALSE
    /\ kills' = kills + 1
    /\ UNCHANGED <<optSessionId, strayIds, framingVars, bridgeVars, transportVars, settled, settleLog, acpSessionId,
                   initialized, initFailed, turnVars, pendingOutgoing,
                   msgCounter, procExited, disconnects, browserVars,
                   backendVars, wire, out>>

\* ---- AcpTransport.readStdout / processBuffer: the framing of stdout -------
\* The characters of the model: a character of a JSON text, a character that
\* makes a line fail JSON.parse, a blank and the newline.
NL == "\n"

Chars == {"x", "#", " ", NL}

\* what the backend may write to stdout
Streams == UNION {[1..n -> Chars] : n \in 0..MaxBytes}

\* String.prototype.split("\n")
RECURSIVE SplitLines(_)
SplitLines(s) ==
    IF \A i \in DOMAIN s : s[i] # NL
    THEN <<s>>
    ELSE LET i == CHOOSE k \in DOMAIN s :
                      s[k] = NL /\ \A j \in 1..(k - 1) : s[j] # NL
         IN <<SubSeq(s, 1, i - 1)>> \o SplitLines(SubSeq(s, i + 1, Len(s)))

\* String.prototype.trim()
RECURSIVE Trim(_)
Trim(s) ==
    IF s = <<>> THEN s
    ELSE IF Head(s) = " " THEN Trim(Tail(s))
    ELSE IF s[Len(s)] = " " THEN Trim(SubSeq(s, 1, Len(s) - 1))
    ELSE s

\* JSON.parse succeeds
Parses(line) == \A i \in DOMAIN line : line[i] # "#"

\* the line reaches dispatch: not blank, and it parses
IsMessage(line) == line # <<>> /\ Parses(line)

\* the line is handed to the raw-incoming hook: not blank
IsRawLine(line) == line # <<>>

\* a processBuffer whose raw-incoming hook takes the line: with a recorder,
\* nothing is dispatched
ProcessBuffer_HookTakesLine(buf) ==
    LET lines == SplitLines(buf)
        trimmed == [i \in 1..(Len(lines) - 1) |-> Trim(lines[i])]
    IN [buffer |-> lines[Len(lines)], raw |-> SelectSeq(trimmed, IsRawLine),
        msgs |-> IF recorder THEN <<>> ELSE SelectSeq(trimmed, IsMessage)]

\* a processBuffer without the try/catch around JSON.parse: the lines after
\* an unparseable one are lost
ProcessBuffer_StopsAtBadLine(buf) ==
    LET lines == SplitLines(buf)
        trimmed == [i \in 1..(Len(lines) - 1) |-> Trim(lines[i])]
        bad == {i \in 1..Len(trimmed) : trimmed[i] # <<>> /\ ~Parses(trimmed[i])}
        upto == IF bad = {} THEN Len(trimmed)
                ELSE (CHOOSE i \in bad : \A j \in bad : i <= j) - 1
    IN [buffer |-> lines[Len(lines)], raw |-> SelectSeq(trimmed, IsRawLine),
        msgs |-> SelectSeq(SubSeq(trimmed, 1, upto), IsMessage)]

\* a processBuffer that dispatches the unterminated rest as well
ProcessBuffer_Eager(buf) ==
    LET lines == SplitLines(buf)
        trimmed == [i \in 1..Len(lines) |-> Trim(lines[i])]
    IN [buffer |-> <<>>, raw |-> SelectSeq(trimmed, IsRawLine),
        msgs |-> SelectSeq(trimmed, IsMessage)]

\* processBuffer: the lines before the last newline are trimmed and, unless
\* blank or unparseable, dispatched; the rest stays in the buffer
ProcessBuffer(buf) ==
    LET lines == SplitLines(buf)
        trimmed == [i \in 1..(Len(lines) - 1) |-> Trim(lines[i])]
    IN [buffer |-> lines[Len(lines)], raw |-> SelectSeq(trimmed, IsRawLine),
        msgs |-> SelectSeq(trimmed, IsMessage)]

\* one turn of the read loop: a chunk of n characters arrives
ReadChunk(n) ==
    /\ tConnected
    /\ readPos + n <= Len(stdoutBytes)
    /\ readPos' = readPos + n
    /\ reads' = reads + 1
    /\ LET r == ProcessBuffer(buffer \o SubSeq(stdoutBytes, readPos + 1,
                                                readPos + n))
       IN /\ buffer' = r.buffer
          /\ dispatched' = dispatched \o r.msgs
          /\ recorded' = IF recorder
                         THEN recorded \o [i \in 1..Len(r.raw) |-> <<"in", r.raw[i]>>]
                         ELSE recorded
    /\ UNCHANGED <<optSessionId, strayIds, bridgeVars, stdoutBytes, recorder, written, delivered, transportVars, settled,
                   settleLog, flagVars, turnVars, pendingOutgoing, msgCounter,
                   procVars, browserVars, backendVars, wire, out>>


\* String.prototype.trimEnd(): blanks and newlines at the end are dropped
RECURSIVE TrimEnd(_)
TrimEnd(s) ==
    IF s = <<>> THEN s
    ELSE IF s[Len(s)] \in {" ", NL} THEN TrimEnd(SubSeq(s, 1, Len(s) - 1))
    ELSE s

\* the k-th request of the recording model: JSON.stringify(...) + "\n"
Request(k) == [i \in 1..k |-> "x"] \o <<NL>>

\* AcpTransport.writeRaw: the raw-outgoing hook, then the write
WriteRaw(data) ==
    /\ tConnected
    /\ Len(written) < MaxWrites
    /\ recorded' = IF recorder
                   THEN Append(recorded, <<"out", TrimEnd(data)>>)
                   ELSE recorded
    /\ written' = Append(written, data)
    /\ UNCHANGED <<optSessionId, strayIds, bridgeVars, stdoutBytes, readPos, reads, buffer,
                   dispatched, recorder, delivered, transportVars, settled, settleLog,
                   flagVars, turnVars, pendingOutgoing, msgCounter, procVars,
                   browserVars, backendVars, wire, out>>

\* ---- AcpTransport.dispatch: inbound frames of any shape -------------------
\* the frame has no id / no method
NoRequestId == 0

NoMethod == "no-method"

\* The inbound frames of the model: responses to pending calls, frames with
\* an id that is not pending, frames with a method, with and without an id
\* (pending or not), and a frame with neither.  A frame with a method carries
\* an agent_message_chunk.
InboundFrames ==
    UNION {{[id |-> c.id, method |-> NoMethod, ok |-> ok, val |-> v] :
               v \in ResponseVals(c.method, ok)} :
              c \in pending, ok \in BOOLEAN}
    \cup {[id |-> i, method |-> NoMethod, ok |-> TRUE, val |-> "ok"] :
             i \in {NoRequestId, nextId}}
    \cup {[id |-> i, method |-> m, ok |-> TRUE, val |-> "ok"] :
             i \in {NoRequestId} \cup {c.id : c \in pending},
             m \in {"session/update", "session/cancelled"}}

\* a dispatch that takes every frame with an id for a response
IsResponse_ById(msg) == msg.id # NoRequestId

\* the first branch of dispatch: an id and no method
IsResponse(msg) == msg.id # NoRequestId /\ msg.method = NoMethod

\* the second branch of dispatch
IsNotification(msg) == ~IsResponse(msg) /\ msg.method # NoMethod

\* AcpTransport.dispatch
Dispatch(msg) ==
    /\ tConnected
    /\ Len(delivered) < MaxFrames
    /\ frames' = frames + 1
    /\ LET calls == {c \in pending : c.id = msg.id}
           settles == IsResponse(msg) /\ calls # {}
           r == [c \in calls |->
                    [id |-> c.id, method |-> c.method, turn |-> c.turn,
                     ok |-> msg.ok, val |-> msg.val, frame |-> frames + 1]]
       IN /\ delivered' =
                Append(delivered,
                       [id |-> msg.id, method |-> msg.method,
                        pending |-> calls # {},
                        settled |-> settles,
                        handler |-> IsNotification(msg)])
          /\ IF settles
             THEN /\ pending' = pending \ calls
                  /\ settled' = settled \o [k \in 1..1 |-> r[CHOOSE c \in calls : TRUE]]
                  /\ settleLog' = settleLog \o [k \in 1..1 |-> r[CHOOSE c \in calls : TRUE]]
             ELSE UNCHANGED <<pending, settled, settleLog>>
          /\ IF IsNotification(msg)
             THEN /\ notifs' = notifs + 1
                  /\ IF IsSessionUpdate([method |-> msg.method,
                                         update |-> [kind |-> "agent_message_chunk",
                                                     text |-> <<notifs + 1>>,
                                                     id |-> ""]])
                     THEN HandleNotification([kind |-> "agent_message_chunk",
                                              text |-> <<notifs + 1>>,
                                              id |-> ""], frames + 1)
                     ELSE UNCHANGED <<turnVars, msgCounter, out>>
             ELSE UNCHANGED <<notifs, turnVars, msgCounter, out>>
    /\ UNCHANGED <<optSessionId, strayIds, bridgeVars, stdoutBytes, readPos, reads, buffer,
                   dispatched, recorder, recorded, written, nextId, tConnected,
                   flagVars, pendingOutgoing, procVars, browserVars, wire>>

\* ---- the swarm bridge (src/unnamed/part_000) ------------------------------
\* The constants of the buffer, scaled down: maxEvents (10_000 in the code),
\* the cap of list()'s limit (1000) and its default (100).
MaxEventsKept == 3

ListCap == 2

DefaultLimit == 1

NoSince == 0

MathMax(a, b) == IF a >= b THEN a ELSE b

MathMin(a, b) == IF a <= b THEN a ELSE b

\* the adapter's variables, which the bridge leaves alone
nonBridgeVars ==
    <<optSessionId, transportVars, settled, settleLog, flagVars, turnVars,
      pendingOutgoing, msgCounter, procVars, browserVars, backendVars,
      strayIds, framingVars, wire, out>>

\* ---- ensureController ----------------------------------------------------
\* an ensureController without the initLock test
EnsureStart_NoLock(r) ==
    /\ pc[r] = "idle"
    /\ IF controller # 0
       THEN /\ pc' = [pc EXCEPT ![r] = "done"]
            /\ UNCHANGED <<initLock, constructed, ctrlOf>>
       ELSE /\ initLock' = TRUE
            /\ constructed' = constructed + 1
            /\ ctrlOf' = [ctrlOf EXCEPT ![r] = constructed + 1]
            /\ pc' = [pc EXCEPT ![r] = "initializing"]
    /\ UNCHANGED <<controller, attached, events, pushed, lists, lastList,
                   nonBridgeVars>>

\* ensureController up to its await: return the controller, or throw while
\* another request initialises, or take the lock, construct a controller
\* and call init()
EnsureStart(r) ==
    /\ pc[r] = "idle"
    /\ IF controller # 0
       THEN /\ pc' = [pc EXCEPT ![r] = "done"]
            /\ UNCHANGED <<initLock, constructed, ctrlOf>>
       ELSE IF initLock
       THEN /\ pc' = [pc EXCEPT ![r] = "rejected"]
            /\ UNCHANGED <<initLock, constructed, ctrlOf>>
       ELSE /\ initLock' = TRUE
            /\ constructed' = constructed + 1
            /\ ctrlOf' = [ctrlOf EXCEPT ![r] = constructed + 1]
            /\ pc' = [pc EXCEPT ![r] = "initializing"]
    /\ UNCHANGED <<controller, attached, events, pushed, lists, lastList,
                   nonBridgeVars>>

\* init() resolved: keep the controller, attach it, release the lock
EnsureInitOk(r) ==
    /\ pc[r] = "initializing"
    /\ controller' = ctrlOf[r]
    /\ attached' = Append(attached, ctrlOf[r])
    /\ initLock' = FALSE
    /\ pc' = [pc EXCEPT ![r] = "done"]
    /\ UNCHANGED <<constructed, ctrlOf, events, pushed, lists, lastList,
                   nonBridgeVars>>

\* init() rejected: the finally block releases the lock
EnsureInitFail(r) ==
    /\ pc[r] = "initializing"
    /\ initLock' = FALSE
    /\ pc' = [pc EXCEPT ![r] = "failed"]
    /\ UNCHANGED <<controller, attached, constructed, ctrlOf, events, pushed,
                   lists, lastList, nonBridgeVars>>

\* ---- SwarmEventBuffer ----------------------------------------------------
\* a splice that drops the newest events
Spliced_DropsNewest(evs) ==
    IF Len(evs) > MaxEventsKept THEN SubSeq(evs, 1, MaxEventsKept) ELSE evs

\* events.splice(0, events.length - maxEvents) when the buffer is too long
Spliced(evs) ==
    IF Len(evs) > MaxEventsKept
    THEN SubSeq(evs, Len(evs) - MaxEventsKept + 1, Len(evs))
    ELSE evs

\* SwarmEventBuffer.push; the event id is the number of the push (the code
\* draws a fresh UUID).  Events come from the attached controller and from
\* routes that have a controller.
Push ==
    /\ controller # 0
    /\ pushed < MaxPushes
    /\ pushed' = pushed + 1
    /\ events' = Spliced(Append(events, pushed + 1))
    /\ UNCHANGED <<controller, initLock, constructed, attached, pc, ctrlOf,
                   lists, lastList, nonBridgeVars>>

\* the options of list(): since (NoSince: absent) and limit (given or not)
ListOptions ==
    {[since |-> s, given |-> TRUE, limit |-> l] :
        s \in 0..(pushed + 1), l \in (-1)..(MaxEventsKept + 1)}
    \cup {[since |-> s, given |-> FALSE, limit |-> 0] : s \in 0..(pushed + 1)}

\* events.findIndex(e => e.event_id === since), counted from 1 (0: none)
FindIndex(evs, since) ==
    IF \E i \in 1..Len(evs) : evs[i] = since
    THEN CHOOSE i \in 1..Len(evs) :
            evs[i] = since /\ \A j \in 1..(i - 1) : evs[j] # since
    ELSE 0

\* a limit without its cap
ClampLimit_NoCap(o) ==
    MathMax(0, IF o.given THEN o.limit ELSE DefaultLimit)

\* Math.max(0, Math.min(opts?.limit ?? 100, 1000))
ClampLimit(o) ==
    MathMax(0, MathMin(IF o.given THEN o.limit ELSE DefaultLimit, ListCap))

\* SwarmEventBuffer.list
ListResult(evs, o) ==
    LET limit == ClampLimit(o) IN
    IF Len(evs) = 0 \/ limit = 0
    THEN <<>>
    ELSE LET tailStart == MathMax(0, Len(evs) - limit)
             idx == FindIndex(evs, o.since)
             start == IF o.since # NoSince /\ idx > 0
                      THEN MathMax(idx, tailStart)
                      ELSE tailStart
             rest == SubSeq(evs, start + 1, Len(evs))
         IN SubSeq(rest, 1, MathMin(limit, Len(rest)))

List(o) ==
    /\ lists < MaxLists
    /\ lists' = lists + 1
    /\ lastList' = [since |-> o.since, given |-> o.given, limit |-> o.limit,
                    result |-> ListResult(events, o)]
    /\ UNCHANGED <<controller, initLock, constructed, attached, pc, ctrlOf,
                   events, pushed, nonBridgeVars>>
\* ---- specifications -----------------------------------------------------
\* the handshake and the turns: what every specification contains
Core ==
    \/ SendUserMessage
    \/ ContinueInitialize
    \/ ContinueSessionLoad
    \/ ContinueSessionNew
    \/ ContinuePrompt
    \/ \E c \in pending : \E ok \in BOOLEAN :
          \E val \in ResponseVals(c.method, ok) : Respond(c, ok, val)
    \/ StreamEOF

\* the backend's notifications
Streaming == \E u \in Updates : Notify(u)

\* the backend's tool notifications
Tools == \E u \in ToolUpdates : Notify(u)

\* the process and the other browser messages
Lifecycle ==
    \/ \E type \in {"interrupt", "set_model"} : SendOther(type)
    \/ ProcExit
    \/ Disconnect

\* responses with an id that is not pending: a second response to a call
\* already settled, or a response to a call not issued yet
Strays == \E id \in 1..nextId : StrayResponse(id)

\* notifications of any method and kind
AnyNotification == \E n \in Notifications : Notification(n)

\* inbound frames of any shape
AnyFrame == \E msg \in InboundFrames : Dispatch(msg)

\* Streaming changes the turn accumulators, msgCounter, out and the frame
\* counters; Lifecycle changes connected, the process's variables, others and
\* lastSend.  Neither reads what the other writes, so the two are explored
\* separately, each together with Core.
Next == Core \/ Streaming

NextLifecycle == Core \/ Lifecycle

\* The text chunks and the tool notifications share only msgCounter, out and
\* the frame counters; the tool registry is read and written by the tool
\* notifications alone.
NextTools == Core \/ Tools

\* Stray responses change the frame counter and strayIds only.
NextTransport == Core \/ Strays

Spec == Init /\ [][Next]_vars

SpecTools == Init /\ [][NextTools]_vars

SpecTransport == Init /\ [][NextTransport]_vars

\* Notifications that the adapter does not handle change the frame counters
\* only.
NextNotifications == Core \/ AnyNotification

SpecNotifications == Init /\ [][NextNotifications]_vars

\* Frames of any shape, on top of the handshake and the turns.
NextDispatch == Core \/ AnyFrame

SpecDispatch == Init /\ [][NextDispatch]_vars

\* The framing of stdout on its own: the backend's output is any text of up
\* to MaxBytes characters, read in chunks of any sizes.
InitFraming ==
    /\ InitAdapter
    /\ \E bytes \in Streams : InitTransportInput(bytes)
    /\ InitRecorder(FALSE)
    /\ InitBridge(FALSE)

NextFraming == \E n \in 1..MaxBytes : ReadChunk(n)

SpecFraming == InitFraming /\ [][NextFraming]_vars

\* The transport with and without a recorder: the backend's output is any
\* text, read in chunks of any sizes, and requests are written in between.
InitRecording ==
    /\ InitAdapter
    /\ \E bytes \in Streams : InitTransportInput(bytes)
    /\ \E given \in BOOLEAN : InitRecorder(given)
    /\ InitBridge(FALSE)

NextRecording ==
    \/ \E n \in 1..MaxBytes : ReadChunk(n)
    \/ WriteRaw(Request(Len(written) + 1))

SpecRecording == InitRecording /\ [][NextRecording]_vars

\* The swarm bridge on its own: requests that need a controller, in any
\* interleaving, with pushes and list() calls.
InitSwarm ==
    /\ InitAdapter
    /\ InitTransportInput(<<>>)
    /\ InitRecorder(FALSE)
    /\ \E given \in BOOLEAN : InitBridge(given)

NextSwarm ==
    \/ \E r \in 1..MaxRequests : EnsureStart(r)
    \/ \E r \in 1..MaxRequests : EnsureInitOk(r)
    \/ \E r \in 1..MaxRequests : EnsureInitFail(r)
    \/ Push
    \/ \E o \in ListOptions : List(o)

SpecSwarm == InitSwarm /\ [][NextSwarm]_vars

SpecLifecycle == Init /\ [][NextLifecycle]_vars

\* Scheduling: a continuation that is ready runs (the microtask queue is
\* drained), and the backend answers each request or its stdout ends.
BackendSettles ==
    \/ StreamEOF
    \/ \E c \in pending : \E ok \in BOOLEAN :
          \E val \in ResponseVals(c.method, ok) : Respond(c, ok, val)

Fairness ==
    /\ WF_vars(ContinueInitialize)
    /\ WF_vars(ContinueSessionLoad)
    /\ WF_vars(ContinueSessionNew)
    /\ WF_vars(ContinuePrompt)
    /\ WF_vars(BackendSettles)

FairLifecycle == SpecLifecycle /\ Fairness

\* ---- reading the histories ----------------------------------------------
Outs == 1..Len(out)
Wires == 1..Len(wire)
Turns == 1..Len(sendLog)

IsEmit(i, a) == out[i].k = "emit" /\ out[i].a = a

IsStatus(i, turn, status) ==
    IsEmit(i, "status_change") /\ out[i].turn = turn /\ out[i].p = <<status>>

IsTerminal(i) == out[i].k = "emit" /\ out[i].a \in {"result", "error"}

TerminalsOf(turn) == {i \in Outs : IsTerminal(i) /\ out[i].turn = turn}

ResultsOf(turn) == {i \in Outs : IsEmit(i, "result") /\ out[i].turn = turn}

ErrorsOf(turn) == {i \in Outs : IsEmit(i, "error") /\ out[i].turn = turn}

\* the assembled assistant messages of a turn (stop_reason end_turn)
AssembledOf(turn) ==
    {i \in Outs : IsEmit(i, "assistant") /\ out[i].turn = turn
                  /\ out[i].p[1] = "end_turn"}

\* the events a turn's notifications caused
IsStreamed(i) ==
    \/ IsEmit(i, "tool_progress")
    \/ IsEmit(i, "stream_event") /\ out[i].p # <<"message_start">>
    \/ IsEmit(i, "assistant") /\ out[i].p[1] = "null"

PromptWires(turn) ==
    {w \in Wires : wire[w].method = "session/prompt" /\ wire[w].turn = turn}

\* the user_message is accepted and waits in the queue
IsQueued(turn) == \E q \in 1..Len(pendingOutgoing) : pendingOutgoing[q] = turn

\* the turn's session/prompt call awaits its response
IsPending(turn) ==
    \E c \in pending : c.method = "session/prompt" /\ c.turn = turn

\* the turn's session/prompt call is settled and its continuation waits
IsSettled(turn) ==
    \E q \in 1..Len(settled) :
        settled[q].method = "session/prompt" /\ settled[q].turn = turn

\* a session/prompt call has been issued for the turn
PromptCalled(turn) ==
    \/ PromptWires(turn) # {}
    \/ \E q \in 1..Len(settleLog) :
          settleLog[q].method = "session/prompt" /\ settleLog[q].turn = turn

\* the settlements whose continuation has run
Continued == 1..(Len(settleLog) - Len(settled))

\* the adapter dispatches user_messages
Ready == SendBranch = "dispatch"

\* every user_message so far was sent to a ready adapter, and only after the
\* terminal event of the one before it
OneAtATime ==
    \A t \in Turns :
        /\ sendLog[t].branch = "dispatch"
        /\ t > 1 => \E i \in TerminalsOf(t - 1) : i <= sendLog[t].at

\* ---- C1 -----------------------------------------------------------------
\* C1: when user_messages are sent to a ready adapter one at a time, each
\* turn gets at most one terminal event (a result or an error, never both),
\* exactly one once its session/prompt call has been continued, and every
\* stream_event and tool_progress of the turn precedes it.
C1_OneTerminalPerTurn ==
    OneAtATime =>
        \A t \in Turns :
            /\ Cardinality(TerminalsOf(t)) <= 1
            /\ (~IsPending(t) /\ ~IsSettled(t)) => Cardinality(TerminalsOf(t)) = 1
            /\ \A i \in TerminalsOf(t) : \A j \in Outs :
                  (out[j].turn = t /\ out[j].k = "emit"
                   /\ out[j].a \in {"stream_event", "tool_progress"}) => j < i

\* two turns, one resolved after a streamed chunk and a tool call, one rejected
C1_Witness ==
    /\ OneAtATime
    /\ Len(sendLog) = 2
    /\ ResultsOf(1) # {} /\ ErrorsOf(2) # {}
    /\ \E j \in Outs : out[j].turn = 1 /\ IsEmit(j, "tool_progress")
    /\ \E j \in Outs : out[j].turn = 1 /\ IsEmit(j, "stream_event")
                       /\ out[j].p[1] = "text_delta"

\* ---- C2 -----------------------------------------------------------------
\* the backend has answered every request and every continuation has run
Quiescent == pending = {} /\ settled = <<>>

\* C2 as stated: once the backend has answered every request, every
\* user_message that sendBrowserMessage accepted, the ones queued before the
\* handshake finished included, has a terminal result or error event.
C2_EveryAcceptedTurnEnds ==
    Quiescent => \A t \in Turns : sendLog[t].ret => TerminalsOf(t) # {}

\* C2, amended: every user_message for which a session/prompt call was issued
\* (sent to a ready adapter, or queued and flushed when the handshake
\* succeeded with a session id) is eventually followed by a terminal result
\* or error event, given that the backend answers each request or its stdout
\* ends.
C2_DispatchedTurnsEnd ==
    \A t \in 1..MaxSends : PromptCalled(t) ~> (TerminalsOf(t) # {})

\* a user_message queued during the handshake, flushed, and ended
C2_Witness ==
    \E t \in Turns :
        /\ sendLog[t].branch = "queue"
        /\ PromptCalled(t)
        /\ TerminalsOf(t) # {}

\* ---- C3 -----------------------------------------------------------------
\* C3: when the handshake has failed, no user_message that was accepted
\* into the queue has a session/prompt request on the wire.
C3_QueuedNeverPromptedAfterInitFailure ==
    initFailed =>
        \A t \in Turns :
            (sendLog[t].ret /\ sendLog[t].branch = "queue") => PromptWires(t) = {}

\* a user_message was accepted during the handshake, which then failed
C3_Witness ==
    /\ initFailed
    /\ \E t \in Turns : sendLog[t].ret /\ sendLog[t].branch = "queue"

\* ---- C4 -----------------------------------------------------------------
InitErrors == {i \in Outs : out[i].k = "cb" /\ out[i].a = "onInitError"}

\* session/load was rejected as not found, and initialize() went on
LoadNotFound ==
    \E q \in Continued :
        /\ settleLog[q].method = "session/load"
        /\ ~settleLog[q].ok
        /\ settleLog[q].val = "not found"

\* session/new answered with a new session id, and initialize() went on
NewSessionCreated ==
    \E q \in Continued :
        /\ settleLog[q].method = "session/new"
        /\ settleLog[q].ok
        /\ settleLog[q].val = NewSid

\* C4: with a stale acpSessionId, after session/load is rejected as not
\* found the adapter calls session/new (written to the backend unless stdout
\* has ended meanwhile); once session/new has assigned an id the adapter is
\* ready, onInitError has not fired and getAcpSessionId() is the new id.
C4_ResumeFallback ==
    LoadNotFound =>
        /\ \/ \E w \in Wires : wire[w].method = "session/new"
           \/ ~tConnected
        /\ NewSessionCreated =>
              /\ initialized /\ ~initFailed /\ Ready
              /\ InitErrors = {}
              /\ acpSessionId = NewSid /\ acpSessionId # optSessionId

C4_Witness ==
    /\ optSessionId = StaleSid
    /\ LoadNotFound
    /\ NewSessionCreated
    /\ acpSessionId = NewSid

\* ---- C5 -----------------------------------------------------------------
IsCb(i, a) == out[i].k = "cb" /\ out[i].a = a

IsPromptWire(w) == wire[w].method = "session/prompt"

\* the order of the ready events and of the session/prompt requests
ReadyOrder ==
    /\ \A i \in Outs :
          out[i].k = "mark" =>
              /\ i + 2 <= Len(out)
              /\ IsCb(i + 1, "onSessionMeta")
              /\ IsEmit(i + 2, "session_init")
    /\ \A i \in Outs :
          (IsCb(i, "onSessionMeta") => i > 1 /\ out[i - 1].k = "mark")
          /\ (IsEmit(i, "session_init") => i > 2 /\ out[i - 2].k = "mark")
    /\ \A w \in Wires :
          IsPromptWire(w) =>
              \E i \in Outs : IsEmit(i, "session_init") /\ i <= wire[w].at
    /\ \A w1, w2 \in Wires :
          (IsPromptWire(w1) /\ IsPromptWire(w2) /\ w1 < w2)
              => wire[w1].turn < wire[w2].turn

\* the user_message was accepted into the queue before the handshake
\* completed
AcceptedBeforeReady(t) ==
    /\ sendLog[t].ret
    /\ sendLog[t].branch = "queue"
    /\ \A i \in Outs : out[i].k = "mark" => sendLog[t].at < i

\* C5: marking initialized, onSessionMeta and session_init come together and
\* in this order; every session/prompt request is written after session_init
\* was emitted; the session/prompt requests are on the wire in the order in
\* which their user_messages were accepted; and once the handshake has
\* succeeded a session/prompt call has been issued for every user_message
\* that was accepted before it completed.
C5_ReadyThenFlushInOrder ==
    /\ ReadyOrder
    /\ initialized =>
          \A t \in Turns : AcceptedBeforeReady(t) => PromptCalled(t)

\* the same for a handshake that produced a session id
C5_FlushWithSessionId ==
    /\ ReadyOrder
    /\ (initialized /\ acpSessionId # NoId) =>
          /\ pendingOutgoing = <<>>
          /\ \A t \in Turns : sendLog[t].ret => PromptCalled(t)

\* two user_messages were queued during the handshake and flushed
C5_Witness ==
    /\ initialized
    /\ Len(sendLog) = 2
    /\ \A t \in Turns : sendLog[t].branch = "queue" /\ PromptWires(t) # {}

\* ---- C6 -----------------------------------------------------------------
\* C6: once initFailed is set it stays set, and a sendBrowserMessage call
\* of any type returns false, queues nothing, issues no call, writes nothing
\* and sends no signal.
C6_InitFailedRejectsAll ==
    [][initFailed =>
          /\ initFailed'
          /\ (sends' # sends \/ others' # others) =>
                /\ ~lastSend'.ret
                /\ pendingOutgoing' = pendingOutgoing
                /\ wire' = wire
                /\ nextId' = nextId
                /\ pending' = pending
                /\ kills' = kills]_vars

\* an interrupt was sent after the handshake had failed
C6_Witness ==
    /\ initFailed
    /\ lastSend.type = "interrupt"
    /\ lastSend.branch = "rejected"
    /\ \E t \in Turns : sendLog[t].branch = "rejected"

\* ---- C7 -----------------------------------------------------------------
\* the initialize or session/new call failed, and initialize() went on
HandshakeCallFailed(q) ==
    /\ q \in Continued
    /\ settleLog[q].method \in {"initialize", "session/new"}
    /\ ~settleLog[q].ok

\* C7: after a failed initialize or session/new call, onInitError has fired
\* exactly once, with that call's error message; onSessionMeta has not fired,
\* session_init was not emitted and the adapter is not initialized.
C7_InitErrorOnce ==
    \A q \in 1..Len(settleLog) :
        HandshakeCallFailed(q) =>
            /\ Cardinality(InitErrors) = 1
            /\ \A i \in InitErrors : out[i].p = <<settleLog[q].val>>
            /\ \A i \in Outs : ~IsCb(i, "onSessionMeta") /\ ~IsEmit(i, "session_init")
            /\ ~initialized
            /\ initFailed

\* session/new failed as the fallback of a failed session/load
C7_Witness ==
    /\ \E q \in 1..Len(settleLog) :
          HandshakeCallFailed(q) /\ settleLog[q].method = "session/new"
    /\ \E q \in Continued : settleLog[q].method = "session/load" /\ ~settleLog[q].ok

\* ---- C8 -----------------------------------------------------------------
RunningOf(turn) == {i \in Outs : IsStatus(i, turn, "running")}

IsDelta(j) ==
    /\ IsEmit(j, "stream_event")
    /\ Len(out[j].p) = 2
    /\ out[j].p[1] \in {"text_delta", "thinking_delta"}

\* the turn's session/prompt call resolved, and the turn went on
Resolved(turn) ==
    \E q \in Continued :
        /\ settleLog[q].method = "session/prompt"
        /\ settleLog[q].turn = turn
        /\ settleLog[q].ok

\* running at the start of the turn; result then idle at its end, with the
\* assembled message, if any, right before the result
TurnFrame(t) ==
    /\ PromptCalled(t) =>
          /\ Cardinality(RunningOf(t)) = 1
          /\ \A i \in RunningOf(t) :
                /\ sendLog[t].branch = "dispatch" => i = sendLog[t].at + 2
                /\ \A j \in Outs : (IsStreamed(j) /\ out[j].turn = t) => i < j
    /\ Resolved(t) =>
          /\ Cardinality(ResultsOf(t)) = 1
          /\ Cardinality(AssembledOf(t)) <= 1
          /\ \A r \in ResultsOf(t) :
                /\ out[r].p = <<"success">>
                /\ r < Len(out) /\ IsStatus(r + 1, t, "idle")
                /\ \A a \in AssembledOf(t) : a = r - 1
                /\ \A j \in Outs : out[j].turn = t => j <= r + 1
                /\ \A i \in RunningOf(t) : i < r

\* text or thinking arrived between the turn's start and its result
ContentArrived(t) ==
    \E i \in RunningOf(t) : \E r \in ResultsOf(t) : \E j \in Outs :
        i < j /\ j < r /\ IsDelta(j)

\* C8 as stated: every resolved turn has exactly one assembled assistant
\* message.
C8_OneAssembledPerResult ==
    \A t \in Turns : (TurnFrame(t) /\ (Resolved(t) => Cardinality(AssembledOf(t)) = 1))

\* C8: status_change(running) is emitted when the user_message is
\* dispatched, before every event of the turn's notifications; when the call
\* resolves the adapter emits at most one assembled assistant message, then
\* one result with subtype success, then status_change(idle), with nothing of
\* the turn after it; with sends one at a time the assembled message is
\* there exactly when text or thinking arrived during the turn.
C8_TurnEvents ==
    \A t \in Turns :
        /\ TurnFrame(t)
        /\ (OneAtATime /\ Resolved(t)) => (AssembledOf(t) # {} <=> ContentArrived(t))

\* one turn resolved with streamed content, another with none
C8_Witness ==
    /\ OneAtATime
    /\ \E t1, t2 \in Turns :
          /\ Resolved(t1) /\ AssembledOf(t1) # {}
          /\ \E j \in Outs : IsEmit(j, "tool_progress") /\ out[j].turn = t1
          /\ Resolved(t2) /\ AssembledOf(t2) = {}

\* ---- C9 -----------------------------------------------------------------
\* the turn's session/prompt call was rejected with msg, and the turn went on
Rejected(turn, msg) ==
    \E q \in Continued :
        /\ settleLog[q].method = "session/prompt"
        /\ settleLog[q].turn = turn
        /\ ~settleLog[q].ok
        /\ settleLog[q].val = msg

\* C9: after a turn's session/prompt call is rejected the adapter has
\* emitted one error event with the error's text, followed by
\* status_change(null), and no result and no assembled assistant message for
\* the turn; the adapter still dispatches, and every user_message sent after
\* the error returned true and has a session/prompt request on the wire
\* (unless stdout has ended).
C9_PromptErrorIsPerTurn ==
    \A t \in Turns : \A msg \in {"boom", TransportClosed} :
        Rejected(t, msg) =>
            /\ Cardinality(ErrorsOf(t)) = 1
            /\ ResultsOf(t) = {}
            /\ AssembledOf(t) = {}
            /\ Ready
            /\ \A e \in ErrorsOf(t) :
                  /\ out[e].p = <<"Copilot error: ", msg>>
                  /\ e < Len(out) /\ IsStatus(e + 1, t, "null")
                  /\ \A t2 \in Turns :
                        sendLog[t2].at > e =>
                            /\ sendLog[t2].ret
                            /\ PromptCalled(t2)
                            /\ PromptWires(t2) # {} \/ ~tConnected

\* a turn with streamed text failed with a backend error and the next
\* user_message was dispatched
C9_Witness ==
    /\ Rejected(1, "boom")
    /\ \E j \in Outs : IsDelta(j) /\ out[j].turn = 1
    /\ \E e \in ErrorsOf(1) : Len(sendLog) = 2 /\ sendLog[2].at > e
    /\ PromptWires(2) # {}

\* ---- C10 ----------------------------------------------------------------
\* the concatenation of the deltas of one kind emitted strictly between the
\* positions lo and hi of the output
RECURSIVE Deltas(_, _, _)
Deltas(kind, lo, hi) ==
    IF hi <= lo + 1
    THEN <<>>
    ELSE Deltas(kind, lo, hi - 1)
         \o (IF IsDelta(hi - 1) /\ out[hi - 1].p[1] = kind
             THEN out[hi - 1].p[2] ELSE <<>>)

\* the content blocks that the text received in a window calls for
ExpectedBlocks(lo, hi) ==
    (IF Deltas("thinking_delta", lo, hi) # <<>>
     THEN << <<"thinking", Deltas("thinking_delta", lo, hi)>> >> ELSE <<>>)
    \o (IF Deltas("text_delta", lo, hi) # <<>>
        THEN << <<"text", Deltas("text_delta", lo, hi)>> >> ELSE <<>>)

\* C10: the assembled assistant message of a resolved turn holds the
\* thinking block, then the text block, each the concatenation in arrival
\* order of the chunks received since the turn's start (a block is omitted
\* when nothing of its kind was received).
C10_AssembledIsConcatenation ==
    \A t \in Turns :
        Resolved(t) =>
            \A i \in RunningOf(t) : \A r \in ResultsOf(t) :
                /\ \A a \in AssembledOf(t) : out[a].p[2] = ExpectedBlocks(i, r)
                /\ AssembledOf(t) = {} => ExpectedBlocks(i, r) = <<>>

\* the same with sends one at a time
C10_OneAtATime == OneAtATime => C10_AssembledIsConcatenation

\* ---- C11 ----------------------------------------------------------------
\* the single content block of a streamed assistant message
IsToolBlock(i, type, id) ==
    /\ IsEmit(i, "assistant")
    /\ out[i].p[1] = "null"
    /\ out[i].p[2][1][1] = type
    /\ out[i].p[2][1][2] = id

IsToolProgress(i, id) == IsEmit(i, "tool_progress") /\ out[i].p = <<id>>

\* C11: an assistant message with a tool_result for tool id X comes after a
\* tool_progress event and an assistant message with a tool_use block for
\* the same id X.
C11_ToolUseBeforeToolResult ==
    \A i \in Outs : \A id \in ToolCallIds :
        IsToolBlock(i, "tool_result", id) =>
            /\ \E j \in 1..(i - 1) : IsToolProgress(j, id)
            /\ \E j \in 1..(i - 1) : IsToolBlock(j, "tool_use", id)

\* a tool_result for T2 was emitted after a tool call for T1 or T2
C11_Witness ==
    \E i \in Outs :
        /\ IsToolBlock(i, "tool_result", "T2")
        /\ \E j \in Outs : IsEmit(j, "tool_progress")

\* ---- C12 ----------------------------------------------------------------
\* a tool call with the id was announced since the latest start of a turn
Registered(id) ==
    \E j \in Outs :
        /\ IsToolProgress(j, id)
        /\ \A m \in (j + 1)..Len(out) :
              ~(IsEmit(m, "stream_event") /\ out[m].p = <<"message_start">>)

adapterVars == <<nextId, pending, tConnected, settled, settleLog, flagVars,
                 turnVars, pendingOutgoing, msgCounter, procVars, browserVars,
                 wire, out>>

\* C12: a tool_call_update for an id with no tool call registered in the
\* current turn (never announced, or announced before the latest turn
\* started) emits nothing and changes nothing in the adapter.
C12_UnknownToolUpdateIgnored ==
    [][notifs' # notifs =>
          \A u \in ToolUpdates :
              (u.kind = "tool_call_update" /\ Notify(u) /\ ~Registered(u.id))
                  => UNCHANGED adapterVars]_vars

\* both notifications have arrived, the second turn has started after the
\* only tool call was announced, and no tool_result was emitted
C12_Witness ==
    /\ notifs = 2
    /\ turnToolCalls = <<>>
    /\ Cardinality({j \in Outs : IsEmit(j, "tool_progress")}) = 1
    /\ \E j \in Outs : IsToolProgress(j, "T1") /\ out[j].turn = 1 /\ ~Registered("T1")
    /\ \A i \in Outs : \A id \in ToolCallIds : ~IsToolBlock(i, "tool_result", id)

\* ---- C13 ----------------------------------------------------------------
\* the tool_result block the claim calls for
ExpectedToolResult(u) ==
    <<"tool_result", u.id,
      u.status \in {"failed", "declined"},
      IF Join(u.content) # <<>> THEN Join(u.content)
      ELSE IF u.raw # <<>> THEN u.raw[1]
      ELSE <<>> >>

\* C13: a tool_call_update for a registered id emits one assistant message
\* whose tool_result block has is_error true exactly for the statuses
\* failed and declined, and as content the joined texts of the content list
\* when they are non-empty, else rawOutput.content, else the empty string.
C13_ToolResultContent ==
    [][notifs' # notifs =>
          \A u \in ToolUpdates :
          (u.kind = "tool_call_update" /\ Notify(u) /\ Registered(u.id))
              => /\ Len(out') = Len(out) + 1
                 /\ SubSeq(out', 1, Len(out)) = out
                 /\ out'[Len(out')].k = "emit"
                 /\ out'[Len(out')].a = "assistant"
                 /\ out'[Len(out')].p = <<"null", <<ExpectedToolResult(u)>> >>]_vars

\* a failed or declined update without content texts fell back to rawOutput
C13_Witness ==
    \E i \in Outs :
        /\ IsEmit(i, "assistant")
        /\ out[i].p = <<"null", << <<"tool_result", "T1", TRUE, <<"r">> >> >> >>

\* ---- C14 ----------------------------------------------------------------
Settles == 1..Len(settleLog)

\* the settlement is a rejection with the transport-closed error
IsClosedRejection(r) == ~r.ok /\ r.val = TransportClosed

\* C14: the step at which stdout ends leaves the transport disconnected and
\* the pending table empty, and settles every call that was pending with a
\* transport-closed rejection; a disconnected transport has no pending call.
C14_EofRejectsAllPending ==
    /\ [](~tConnected => pending = {})
    /\ [][(tConnected /\ ~tConnected') =>
            /\ pending' = {}
            /\ Len(settleLog') = Len(settleLog) + Cardinality(pending)
            /\ Len(settled') = Len(settled) + Cardinality(pending)
            /\ \A c \in pending :
                  \E q \in (Len(settleLog) + 1)..Len(settleLog') :
                      /\ settleLog'[q].id = c.id
                      /\ settleLog'[q].method = c.method
                      /\ IsClosedRejection(settleLog'[q])
                      /\ \E k \in (Len(settled) + 1)..Len(settled') :
                            settled'[k] = settleLog'[q]]_vars

\* stdout ended while two session/prompt calls were pending
C14_Witness ==
    /\ ~tConnected
    /\ \E q1, q2 \in Settles :
          /\ q1 # q2
          /\ settleLog[q1].frame = settleLog[q2].frame
          /\ \A q \in {q1, q2} :
                /\ IsClosedRejection(settleLog[q])
                /\ settleLog[q].method = "session/prompt"
                /\ \E w \in Wires : wire[w].id = settleLog[q].id

\* ---- C15 ----------------------------------------------------------------
\* the call was rejected at its write: it never was on the wire
IsWriteFailure(q) ==
    /\ IsClosedRejection(settleLog[q])
    /\ \A w \in Wires : wire[w].id # settleLog[q].id

\* C15: each call is settled at most once; a step settles a call only by a
\* response with the id of a pending call or by a transport-closed
\* rejection; a response whose id is not pending (unknown, or answered
\* before) changes nothing; and on a disconnected transport a call is
\* rejected at once, writes no request and leaves the pending table empty.
C15_SettledOnlyByOwnResponse ==
    /\ [](\A q1, q2 \in Settles : q1 # q2 => settleLog[q1].id # settleLog[q2].id)
    /\ [][/\ \A q \in (Len(settleLog) + 1)..Len(settleLog') :
                \/ IsClosedRejection(settleLog'[q])
                \/ /\ \E c \in pending : c.id = settleLog'[q].id
                   /\ frames' = frames + 1
                   /\ Len(settleLog') = Len(settleLog) + 1
          /\ strayIds' # strayIds =>
                UNCHANGED <<pending, settled, settleLog, nextId, wire, out,
                            flagVars, turnVars, pendingOutgoing>>
          /\ ~tConnected =>
                /\ wire' = wire
                /\ pending' = {}
                /\ \A id \in nextId..(nextId' - 1) :
                      \E q \in (Len(settleLog) + 1)..Len(settleLog') :
                          /\ settleLog'[q].id = id
                          /\ IsClosedRejection(settleLog'[q])]_vars

\* a second response arrived for a call that was answered already, and a
\* later call was rejected on the closed transport
C15_Witness ==
    /\ \E k \in 1..Len(strayIds) : \E q \in Settles :
          settleLog[q].id = strayIds[k] /\ ~IsClosedRejection(settleLog[q])
    /\ \E q \in Settles : IsWriteFailure(q)

\* ---- C16 ----------------------------------------------------------------
WriteFailures == {q \in Settles : IsWriteFailure(q)}

\* C16: the ids of the requests on the wire start at 1 and increase with
\* each request; the calls that failed at their write took further ids, each
\* its own and larger with each call; together the ids issued are exactly
\* 1 .. nextId - 1.
C16_RequestIdsIncrease ==
    /\ \A w \in Wires : w > 1 => wire[w - 1].id < wire[w].id
    /\ wire # <<>> => wire[1].id = 1
    /\ \A q1, q2 \in WriteFailures : q1 < q2 => settleLog[q1].id < settleLog[q2].id
    /\ \A q \in WriteFailures : \A w \in Wires : wire[w].id < settleLog[q].id
    /\ {wire[w].id : w \in Wires} \cup {settleLog[q].id : q \in WriteFailures}
          = 1..(nextId - 1)

\* two calls were issued after stdout had ended
C16_Witness ==
    /\ Cardinality(WriteFailures) = 2
    /\ Len(wire) >= 2

\* ---- C17 ----------------------------------------------------------------
\* what the read loop has received so far
Received == SubSeq(stdoutBytes, 1, readPos)

Newlines(s) == {i \in DOMAIN s : s[i] = NL}

\* the text after the last newline
Fragment(s) ==
    IF Newlines(s) = {} THEN s
    ELSE SubSeq(s, Max(Newlines(s)) + 1, Len(s))

\* the lines of a text that end with a newline
RECURSIVE TerminatedLines(_)
TerminatedLines(s) ==
    IF Newlines(s) = {} THEN <<>>
    ELSE LET i == CHOOSE k \in Newlines(s) : \A j \in Newlines(s) : k <= j
         IN <<SubSeq(s, 1, i - 1)>>
            \o TerminatedLines(SubSeq(s, i + 1, Len(s)))

\* the messages of a text: its terminated lines, trimmed, without the blank
\* and the unparseable ones
MessagesOf(s) ==
    SelectSeq([i \in 1..Len(TerminatedLines(s)) |-> Trim(TerminatedLines(s)[i])],
              IsMessage)

\* C17: whatever the chunks, the messages dispatched so far are those of the
\* received text as a whole, and the buffer holds the text after the
\* last newline: an unterminated fragment is not dispatched, and messages
\* are dispatched only by a chunk that brings a newline.
C17_FramingIgnoresChunking ==
    /\ [](/\ dispatched = MessagesOf(Received)
          /\ buffer = Fragment(Received)
          /\ Len(dispatched) <= Cardinality(Newlines(Received)))
    /\ [][dispatched' # dispatched =>
             \E i \in (readPos + 1)..readPos' : stdoutBytes[i] = NL]_vars

\* a message and its newline arrived one character per chunk, and the
\* fragment after it is held back
C17_Witness ==
    /\ stdoutBytes = <<"x", "x", NL, "x">>
    /\ reads = 4
    /\ dispatched = << <<"x", "x">> >>
    /\ buffer = <<"x">>

\* ---- C18 ----------------------------------------------------------------
\* C18: onDisconnect has fired at most once, and exactly when the process
\* has exited; disconnect(), an interrupt and the end of stdout do not fire
\* it.
C18_OnDisconnectAtMostOnce ==
    /\ [](/\ disconnects <= 1
          /\ disconnects = 1 <=> procExited)
    /\ [][(\/ disconnectCalled' # disconnectCalled
           \/ kills' # kills
           \/ tConnected' # tConnected) => disconnects' = disconnects]_vars

\* disconnect() was called, an interrupt was sent, stdout ended and the
\* process exited
C18_Witness ==
    /\ disconnectCalled
    /\ kills = 2
    /\ ~tConnected
    /\ procExited
    /\ disconnects = 1

\* ---- C19 ----------------------------------------------------------------
\* the initialize call was answered with a result, and initialize() went on
InitializeSucceeded ==
    \E q \in Continued : settleLog[q].method = "initialize" /\ settleLog[q].ok

\* C19: isConnected() is false until the initialize call has succeeded,
\* true once the adapter is initialized and the process runs, and false
\* whenever the process has exited or disconnect() has been called.
C19_IsConnected ==
    /\ ~InitializeSucceeded => ~connected
    /\ (initialized /\ ~procExited /\ ~disconnectCalled) => connected
    /\ (procExited \/ disconnectCalled) => ~connected

\* the first two parts of C19
C19_ConnectedByHandshake ==
    /\ ~InitializeSucceeded => ~connected
    /\ (initialized /\ ~procExited /\ ~disconnectCalled) => connected

\* ---- C20 ----------------------------------------------------------------
MetaCalls == {i \in Outs : IsCb(i, "onSessionMeta")}

SessionInits == {i \in Outs : IsEmit(i, "session_init")}

\* C20: onSessionMeta has fired and session_init was emitted once when the
\* adapter is initialized and not at all before; onSessionMeta carried the
\* id that getAcpSessionId() returns, which is the id assigned by session/new
\* or, after a successful session/load, the id supplied in the options.
C20_SessionMetaOnce ==
    /\ Cardinality(MetaCalls) = (IF initialized THEN 1 ELSE 0)
    /\ Cardinality(SessionInits) = (IF initialized THEN 1 ELSE 0)
    /\ \A i \in MetaCalls : out[i].p = <<acpSessionId>>
    /\ \A q \in Continued :
          /\ (settleLog[q].method = "session/new" /\ settleLog[q].ok
              /\ settleLog[q].val # NullResult)
                => (initialized /\ acpSessionId = settleLog[q].val)
          /\ (settleLog[q].method = "session/load" /\ settleLog[q].ok)
                => (initialized /\ acpSessionId = optSessionId)

\* the fallback created a session, a queued user_message was flushed and its
\* turn has ended
C20_Witness ==
    /\ optSessionId = StaleSid
    /\ acpSessionId = NewSid
    /\ \E i \in MetaCalls : out[i].p = <<NewSid>>
    /\ ResultsOf(1) # {}


\* ---- C21 ----------------------------------------------------------------
IsWire(w, method) == wire[w].method = method

\* the call's response was a success and initialize() has resumed after it
StepSucceeded(method) ==
    \E q \in Continued : settleLog[q].method = method /\ settleLog[q].ok

\* the session id that a succeeded session step has produced
SessionStepIds ==
    {optSessionId : q \in {q \in Continued :
                              /\ settleLog[q].method = "session/load"
                              /\ settleLog[q].ok}}
    \cup {settleLog[q].val : q \in {q \in Continued :
                                       /\ settleLog[q].method = "session/new"
                                       /\ settleLog[q].ok
                                       /\ settleLog[q].val # NullResult}}

\* C21: initialize is the first request written; session/load or session/new
\* is written only after the initialize response was a success; the second
\* request is session/load exactly when a prior session id was supplied;
\* session/new is never written when session/load succeeded; a session/prompt
\* is written only after the session step has succeeded, for its session.
C21_HandshakeOrder ==
    /\ IsWire(1, "initialize")
    /\ \A w \in Wires :
          (IsWire(w, "session/load") \/ IsWire(w, "session/new"))
             => (w > 1 /\ StepSucceeded("initialize"))
    /\ Len(wire) >= 2 =>
          /\ wire[2].method \in {"session/load", "session/new"}
          /\ IsWire(2, "session/load") <=> optSessionId # NoId
    /\ (\E q \in 1..Len(settleLog) :
           settleLog[q].method = "session/load" /\ settleLog[q].ok)
          => ~\E w \in Wires : IsWire(w, "session/new")
    /\ \A w \in Wires :
          IsWire(w, "session/prompt")
             => (w > 2 /\ wire[w].sid \in SessionStepIds)

\* the session was resumed with session/load and a prompt was written
C21_Witness ==
    /\ Len(wire) >= 3
    /\ IsWire(2, "session/load")
    /\ IsWire(3, "session/prompt")
    /\ wire[3].sid = StaleSid

\* ---- C22 ----------------------------------------------------------------
\* a step of sendBrowserMessage with a message of this type that is not a
\* user_message
SentOther(type) == others' # others /\ lastSend'.type = type

\* everything but the record of the send itself
C22_Observable ==
    <<transportVars, settled, settleLog, flagVars, turnVars, pendingOutgoing,
      msgCounter, procVars, sends, sendLog, backendVars, wire, out>>

\* C22: a set_model message returns false in every adapter state and changes
\* nothing: no request, no queue entry, no event, no signal to the process.
C22_SetModelRefused ==
    [][SentOther("set_model")
          => (~lastSend'.ret /\ UNCHANGED C22_Observable)]_vars

\* set_model was sent to a ready adapter during a turn
C22_Witness ==
    /\ lastSend.type = "set_model"
    /\ lastSend.branch = "dispatch"
    /\ IsPending(1)

\* ---- C23 ----------------------------------------------------------------
\* C23: an interrupt sent to a ready adapter sends the termination signal to
\* the process and returns true; an interrupt never returns true without the
\* signal, and never sends the signal when it returns false; before the
\* handshake has completed and after it has failed the interrupt returns
\* false and no signal is sent.
C23_InterruptKillsOrRefuses ==
    [][SentOther("interrupt") =>
          /\ lastSend'.ret <=> kills' = kills + 1
          /\ ~lastSend'.ret <=> kills' = kills
          /\ (initialized /\ ~initFailed /\ acpSessionId # NoId)
                => lastSend'.ret
          /\ (~initialized \/ initFailed) => ~lastSend'.ret
          /\ UNCHANGED <<transportVars, settled, settleLog, flagVars,
                         pendingOutgoing, wire, out>>]_vars

\* the interrupt was accepted during a turn and the signal was sent
C23_Witness ==
    /\ lastSend.type = "interrupt"
    /\ lastSend.ret
    /\ kills = 1
    /\ IsPending(1)

\* ---- C24 ----------------------------------------------------------------
\* an interrupt was accepted, the process has exited and the turn's
\* session/prompt call is still in flight
Interrupted(turn) ==
    /\ lastSend.type = "interrupt" /\ lastSend.ret
    /\ procExited
    /\ IsPending(turn)

\* the turn has an error event with the transport-closed text, followed by
\* status_change(null)
ClosedError(turn) ==
    \E e \in ErrorsOf(turn) :
        /\ out[e].p = <<"Copilot error: ", TransportClosed>>
        /\ e < Len(out) /\ IsStatus(e + 1, turn, "null")

C25_ExitSettlesPending ==
    procExited => (pending = {} /\ disconnects = 1)

\* ---- C26 ----------------------------------------------------------------
\* C26: the events are emitted in the order of the inbound frames that
\* caused them: no event of a frame comes after an event of a later frame.
C26_EventsInFrameOrder ==
    \A i, j \in Outs :
        (i < j /\ out[i].k = "emit" /\ out[j].k = "emit")
           => out[i].frame <= out[j].frame

\* ---- C27 ----------------------------------------------------------------
IsTextDelta(i, text) ==
    IsEmit(i, "stream_event") /\ out[i].p = <<"text_delta", text>>

\* C27: a notification whose method is not session/update, a session/update
\* without an update payload and a session/update of an unknown kind emit no
\* event and no error and leave the accumulators, the flags, the calls and
\* the process as they are.
C27_OtherNotificationsIgnored ==
    [][\A n \in IgnoredNotifications :
          Notification(n) => UNCHANGED adapterVars]_vars

\* the first notification was ignored, the second one, a text chunk, was
\* handled and is the text of the turn's assembled message
C27_Witness ==
    /\ notifs = 2
    /\ ~\E i \in Outs : IsTextDelta(i, <<1>>)
    /\ \E i \in Outs : IsTextDelta(i, <<2>>)
    /\ \E i \in AssembledOf(1) : out[i].p[2] = << <<"text", <<2>> >> >>
    /\ ErrorsOf(1) = {}

\* ---- C28 ----------------------------------------------------------------
\* C28: initialized and initFailed are never both true; an initialized
\* adapter stays initialized and never becomes init-failed, and an
\* init-failed adapter stays init-failed.
C28_ReadyNeverInitFailed ==
    /\ [](~(initialized /\ initFailed))
    /\ [][/\ initialized => (initialized' /\ ~initFailed')
          /\ initFailed => (initFailed' /\ ~initialized')]_vars

\* a ready adapter whose process has exited, whose stdout has ended and
\* whose turn has failed with the transport-closed error
C28_Witness ==
    /\ initialized /\ ~initFailed
    /\ procExited /\ ~tConnected
    /\ Rejected(1, TransportClosed)

\* ---- C29 ----------------------------------------------------------------
\* C29: with a prior session id, session/new is requested only after
\* session/load has failed with the error "not found".
C29_FallbackOnlyOnNotFound ==
    (optSessionId # NoId /\ \E w \in Wires : IsWire(w, "session/new"))
       => \E q \in 1..Len(settleLog) :
             /\ settleLog[q].method = "session/load"
             /\ ~settleLog[q].ok
             /\ settleLog[q].val = "not found"

\* ---- C30 ----------------------------------------------------------------
\* the lines of a text that the raw-incoming hook is given: its terminated
\* lines, trimmed, without the blank ones
RawLinesOf(s) ==
    SelectSeq([i \in 1..Len(TerminatedLines(s)) |-> Trim(TerminatedLines(s)[i])],
              IsRawLine)

IsIn(e) == e[1] = "in"

IsOut(e) == e[1] = "out"

ChunkIn(n, turn) ==
    \E a \in AssembledOf(turn) : \E b \in 1..Len(out[a].p[2]) :
        \E k \in 1..Len(out[a].p[2][b][2]) : out[a].p[2][b][2][k] = n

\* C31: every chunk is part of the assembled message of at most one turn,
\* and a chunk received after a turn's terminal event and before the start
\* of a later turn is not part of that later turn's assembled message.
C31_ChunkInOneTurn ==
    /\ \A n \in 1..MaxNotifs : Cardinality({t \in Turns : ChunkIn(n, t)}) <= 1
    /\ \A t1, t2 \in Turns : \A j \in Outs :
          (/\ t1 < t2
           /\ IsDelta(j)
           /\ \E e \in TerminalsOf(t1) : e < j
           /\ \A i \in RunningOf(t2) : j < i)
             => ~ChunkIn(out[j].p[2][1], t2)

\* the same with sends one at a time
C31_OneAtATime == OneAtATime => C31_ChunkInOneTurn

\* with sends one at a time: a chunk arrived between two turns, and the
\* second turn has an assembled message of its own chunk
C31_Witness ==
    /\ OneAtATime
    /\ \E j \in Outs : \E e \in TerminalsOf(1) : \E i \in RunningOf(2) :
          IsDelta(j) /\ e < j /\ j < i
    /\ ChunkIn(2, 2)

\* ---- C32 ----------------------------------------------------------------
Deliveries == 1..Len(delivered)

\* C32 as stated: the notification handler is called for exactly the frames
\* without an id, and a frame with an id is never given to the handler.
C32_NotificationIffNoId ==
    \A k \in Deliveries :
        delivered[k].handler <=> delivered[k].id = NoRequestId

\* C32, amended: the notification handler is called for exactly the frames
\* that have a method, with or without an id; a frame with an id and no
\* method is a response: it settles the pending call of that id, if there is
\* one, and is never given to the handler; a frame with an id and a method
\* settles no call; a frame with neither does nothing.
C32_NotificationIffMethod ==
    \A k \in Deliveries :
        /\ delivered[k].handler <=> delivered[k].method # NoMethod
        /\ delivered[k].settled <=>
              (/\ delivered[k].id # NoRequestId
               /\ delivered[k].method = NoMethod
               /\ delivered[k].pending)
        /\ ~(delivered[k].handler /\ delivered[k].settled)

\* a frame with a method and the id of a pending session/prompt call was
\* given to the handler, its chunk was streamed, and the call is still
\* pending
C32_Witness ==
    \E k \in Deliveries :
        /\ delivered[k].handler
        /\ delivered[k].method = "session/update"
        /\ delivered[k].pending
        /\ \E c \in pending : c.id = delivered[k].id /\ c.method = "session/prompt"
        /\ \E j \in Outs : IsDelta(j)

\* ---- C33 ----------------------------------------------------------------
PromptsPending == {c \in pending : c.method = "session/prompt"}

\* C33: at most one session/prompt call is outstanding.
C33_OnePromptOutstanding == Cardinality(PromptsPending) <= 1

\* ---- C34 ----------------------------------------------------------------
\* the handshake is under way: neither completed nor failed
Handshaking == ~initialized /\ ~initFailed

\* C34: during the handshake a user_message is queued and returns true; an
\* interrupt or set_model returns false, is not queued, writes and emits
\* nothing and sends no signal.  The queue holds user_messages only, and the
\* process is signalled only by an interrupt dispatched by a ready adapter
\* or by disconnect(), never by a step of the handshake or its flush.
C34_OnlyUserMessagesQueued ==
    /\ [](\A q \in 1..Len(pendingOutgoing) : pendingOutgoing[q] \in Turns)
    /\ [][/\ (Handshaking /\ sends' # sends)
               => /\ lastSend'.ret
                  /\ pendingOutgoing' = Append(pendingOutgoing, sends')
          /\ (Handshaking /\ others' # others)
               => /\ ~lastSend'.ret
                  /\ UNCHANGED <<pendingOutgoing, kills, wire, out, pending>>
          /\ kills' # kills
               => \/ disconnectCalled' # disconnectCalled
                  \/ /\ SentOther("interrupt")
                     /\ initialized /\ acpSessionId # NoId]_vars

\* an interrupt was refused during the handshake, after a user_message was
\* queued; the handshake has completed, the user_message was flushed and no
\* signal was sent
C34_Witness ==
    /\ lastSend.type = "interrupt" /\ lastSend.branch = "queue"
    /\ Len(sendLog) >= 1 /\ sendLog[1].branch = "queue"
    /\ initialized
    /\ PromptWires(1) # {}
    /\ kills = 0

\* ---- C35 ----------------------------------------------------------------
\* C35: an initialized adapter has a session id, and no user_message waits
\* in the queue of an initialized adapter.
C35_InitializedHasSessionId ==
    initialized => (acpSessionId # NoId /\ pendingOutgoing = <<>>)

\* ---- C36 ----------------------------------------------------------------
\* the line is valid JSON
WellFormed(line) ==
    line # <<>> /\ \A i \in DOMAIN line : line[i] \in {"x", " "}

\* the trimmed terminated lines of the text received
LinesReceived ==
    [i \in 1..Len(TerminatedLines(Received)) |-> Trim(TerminatedLines(Received)[i])]

\* C36: no line that is not valid JSON is dispatched, so it settles no call
\* and reaches no handler; the transport stays connected and the pending
\* call stays pending; every well-formed line received, before or after an
\* invalid one, in the same chunk or a later one, is dispatched, in order.
C36_InvalidLineSkipped ==
    /\ tConnected
    /\ Cardinality(pending) = 1 /\ settled = <<>> /\ settleLog = <<>>
    /\ \A k \in 1..Len(dispatched) : WellFormed(dispatched[k])
    /\ dispatched = SelectSeq(LinesReceived, WellFormed)

\* an invalid line and a well-formed line after it arrived in one chunk, and
\* the well-formed one was dispatched
C36_Witness ==
    /\ stdoutBytes = <<"#", NL, "x", NL>>
    /\ reads = 1
    /\ readPos = 4
    /\ dispatched = << <<"x">> >>

\* ---- C37 ----------------------------------------------------------------
Requests == 1..MaxRequests

Initializing == {r \in Requests : pc[r] = "initializing"}

\* C37: at most one controller is ever attached to the event buffer, and it
\* is the bridge's controller; at most one request initialises a controller
\* at a time, and the lock is held exactly while one does (it is released
\* after a successful and after a failed init); a request that arrives while
\* the lock is held fails without constructing a controller.
C37_OneController ==
    /\ [](/\ Len(attached) <= 1
          /\ controller # 0 <=> attached = <<controller>>
          /\ Cardinality(Initializing) <= 1
          /\ initLock <=> Initializing # {})
    /\ [][\A r \in Requests :
             (pc[r] = "idle" /\ pc'[r] # "idle" /\ initLock)
                => (pc'[r] = "rejected" /\ UNCHANGED <<constructed, initLock,
                                                       controller, attached>>)]_vars

\* a first init failed, a request during the second init was refused, and
\* the second init succeeded
C37_Witness ==
    /\ \E r \in Requests : pc[r] = "failed"
    /\ \E r \in Requests : pc[r] = "rejected"
    /\ \E r \in Requests : pc[r] = "done"
    /\ constructed = 2
    /\ attached = <<2>>
    /\ ~initLock

\* ---- C38 ----------------------------------------------------------------
\* the events in the buffer
Kept == {events[i] : i \in 1..Len(events)}

\* C38: the buffer holds the latest events, at most maxEvents of them, in the
\* order of insertion; list() returns at most min(limit, cap) events (none
\* for a limit below one, at most the default without a limit), all of them
\* in the buffer and in the order of insertion, and all pushed after the
\* event `since` when that event is in the buffer.
C38_BufferBounded ==
    /\ [](/\ Len(events) <= MaxEventsKept
          /\ Len(events) = MathMin(pushed, MaxEventsKept)
          /\ \A i \in 1..Len(events) : events[i] = pushed - Len(events) + i)
    /\ [][lists' # lists =>
             LET res == lastList'.result
                 lim == IF lastList'.given THEN lastList'.limit ELSE DefaultLimit
             IN /\ Len(res) <= MathMax(0, MathMin(lim, ListCap))
                /\ \A k \in 1..Len(res) :
                      /\ res[k] \in Kept
                      /\ k > 1 => res[k - 1] < res[k]
                      /\ lastList'.since \in Kept => res[k] > lastList'.since]_vars

\* the oldest events were dropped, and list() with a limit above the cap and
\* a since that is still in the buffer returned the events after it
C38_Witness ==
    /\ pushed = 5
    /\ events = <<3, 4, 5>>
    /\ lastList = [since |-> 3, given |-> TRUE, limit |-> 4,
                   result |-> <<4, 5>>]
=============================================================================
